---- MODULE Spec2Model ----
(***************************************************************************)
(* Marker registries of ros3djs: ROS3D.MarkerArrayClient (batched arrays   *)
(* of markers) and ROS3D.MarkerClient (one marker per message, optional    *)
(* lifetime); the ROS3D.Viewer with its render loop and follow camera;     *)
(* and the construction of a ROS3D.Urdf.  One object is modelled at a      *)
(* time; `kind` says which class was constructed.                          *)
(*                                                                         *)
(* `nodes` is the heap of SceneNodes: identity -> node, with the calls     *)
(* made on a node recorded in its `log`.  A handler runs to completion in  *)
(* one step and leaves `last` describing the event it handled; the event   *)
(* loop then returns to idle, where unreachable nodes are collected.       *)
(***************************************************************************)
EXTENDS Integers, Sequences, FiniteSets, Bags, TLC

VARIABLES
  kind,         \* the class constructed: "MarkerArrayClient", "MarkerClient",
                \* "Viewer" or "Urdf"
  nodes,        \* heap of SceneNodes: identity -> node
  markers,      \* this.markers: key (ns+id) -> SceneNode
  order,        \* the keys of this.markers, in the order they were created
  rootObject,   \* this.rootObject.children: the SceneNodes attached
  hiddenTypes,  \* this.hiddenTypes (MarkerArrayClient)
  lifetime,     \* this.lifetime (MarkerClient)
  updatedTime,  \* this.updatedTime: key -> ms (MarkerClient)
  timers,       \* pending setTimeout callbacks of checkTime: bag of [name, due]
  now,          \* new Date().getTime(), in ms
  rosTopic,     \* whether processMessage is subscribed to the topic
  last,         \* the event being dispatched (op "idle" between events)
  viewer,       \* the ROS3D.Viewer, its scene and its render loop
  urdf          \* the ROS3D.Urdf under construction

vars == <<kind, nodes, markers, order, rootObject, hiddenTypes, lifetime,
          updatedTime, timers, now, rosTopic, last, viewer, urdf>>

(***************************************************************************)
(* Bounds of the model.                                                    *)
(***************************************************************************)
MaxArrayLen == 2    \* markers in one MarkerArray message
MaxBatchLen == 3    \* markers in one MarkerArray message of a batch scenario
MaxTicks    == 3    \* clock advances in one run
MaxTimers   == 2    \* checkTime polls pending at once
MaxElapse   == 5    \* clock advances in one expiry scenario
MaxPending  == 2    \* ticks of the render loop outstanding at once
MaxObjects  == 2    \* objects that carry a followed name, over one run
MaxVisuals  == 2    \* visuals of one link of a URDF model

(***************************************************************************)
(* Program constants.                                                      *)
(***************************************************************************)
PollInterval == 100   \* setTimeout(..., 100) in checkTime

\* Granularity of the modelled clock, in ms: half a poll interval.
TickStep == PollInterval \div 2

CUBE          == 1    \* ROS3D.MARKER_CUBE
MESH_RESOURCE == 10   \* ROS3D.MARKER_MESH_RESOURCE

(***************************************************************************)
(* Inputs.                                                                 *)
(***************************************************************************)
\* (ns, id) pairs of the messages.
Pairs == { <<<<"a">>, 1>>, <<<<"a">>, 11>> }

Types == {CUBE, MESH_RESOURCE}

Msg(action, p, type, updatable) ==
  [action |-> action, ns |-> p[1], id |-> p[2], type |-> type,
   frame_id |-> "base", updatable |-> updatable]

\* action 0 carries a payload; `updatable` is whether the payload can be
\* applied to an existing marker of the same type without rebuilding it.
Upserts == { Msg(0, p, t, u) : p \in Pairs, t \in Types, u \in BOOLEAN }

\* Messages a MarkerClient receives: every action code with every key.
Messages == Upserts \cup { Msg(a, p, CUBE, FALSE) : a \in {1, 2, 3, 4}, p \in Pairs }

\* Markers inside a MarkerArray; actions 1, 3 and 4 never read ns or id there.
ArrayMarkers ==
  Upserts \cup { Msg(2, p, CUBE, FALSE) : p \in Pairs }
          \cup { Msg(a, <<<<"a">>, 1>>, CUBE, FALSE) : a \in {1, 3, 4} }

RECURSIVE SeqsUpTo(_, _)
SeqsUpTo(S, n) ==
  IF n = 0 THEN { <<>> }
  ELSE LET shorter == SeqsUpTo(S, n - 1)
       IN  shorter \cup { Append(s, x) : s \in { t \in shorter : Len(t) = n - 1 }, x \in S }

ArrayMessages == { [markers |-> s] : s \in SeqsUpTo(ArrayMarkers, MaxArrayLen) }

HiddenTypeSets == { {}, {MESH_RESOURCE} }
Lifetimes == {0, 100}

(***************************************************************************)
(* message.ns + message.id: string concatenation with the decimal form of  *)
(* the id.  Strings are sequences of one-character strings.                *)
(***************************************************************************)
Digit(d) == <<"0", "1", "2", "3", "4", "5", "6", "7", "8", "9">>[d + 1]

RECURSIVE NatString(_)
NatString(n) == IF n < 10 THEN <<Digit(n)>>
                ELSE NatString(n \div 10) \o <<Digit(n % 10)>>

IdString(id) == IF id < 0 THEN <<"-">> \o NatString(-id) ELSE NatString(id)

Key(message) == message.ns \o IdString(message.id)

Keys == { Key(m) : m \in Messages }

(***************************************************************************)
(* for (var m in this.markers): the keys that are array indices (canonical *)
(* decimal numbers up to 2^32 - 2) in ascending order, then the other keys *)
(* in the order they were created.                                         *)
(***************************************************************************)
MaxIndex == <<"4", "2", "9", "4", "9", "6", "7", "2", "9", "4">>

IsDigit(c) == \E d \in 0..9 : Digit(d) = c
DigitValue(c) == CHOOSE d \in 0..9 : Digit(d) = c

\* a < b, for two canonical decimal numbers.
RECURSIVE DigitsLess(_, _, _)
DigitsLess(a, b, i) ==
  IF i > Len(a) THEN FALSE
  ELSE IF a[i] = b[i] THEN DigitsLess(a, b, i + 1)
  ELSE DigitValue(a[i]) < DigitValue(b[i])

IndexLess(a, b) == Len(a) < Len(b) \/ (Len(a) = Len(b) /\ DigitsLess(a, b, 1))

IsIndex(key) ==
  /\ Len(key) > 0
  /\ \A i \in 1..Len(key) : IsDigit(key[i])
  /\ Len(key) = 1 \/ key[1] # "0"
  /\ ~IndexLess(MaxIndex, key)

RECURSIVE Ascending(_)
Ascending(indices) ==
  IF indices = {} THEN <<>>
  ELSE LET least == CHOOSE a \in indices : \A b \in indices : a = b \/ IndexLess(a, b)
       IN  <<least>> \o Ascending(indices \ {least})

forIn(keys) ==
  Ascending({ keys[i] : i \in { j \in 1..Len(keys) : IsIndex(keys[j]) } })
    \o SelectSeq(keys, LAMBDA k : ~IsIndex(k))

\* The keys in creation order once key is deleted, and once it is assigned.
Deleted(keys, key) == SelectSeq(keys, LAMBDA k : k # key)
Assigned(keys, key) ==
  IF \E i \in 1..Len(keys) : keys[i] = key THEN keys ELSE Append(keys, key)

(***************************************************************************)
(* Collaborators: ROS3D.Marker and ROS3D.SceneNode.                        *)
(***************************************************************************)
\* new ROS3D.Marker({message, path}): the renderable made from the message.
\* A shape marker carries its geometry and its material; a mesh marker
\* carries neither and holds the mesh resource it was loaded from.
Marker(message) ==
  IF message.type = MESH_RESOURCE
  THEN [type |-> message.type, resource |-> TRUE]
  ELSE [type |-> message.type, resource |-> FALSE,
        geometry |-> "obj", material |-> "obj"]

\* marker.update(message): false when the message cannot be applied in place.
Marker_update(marker, message) ==
  marker.type = message.type /\ message.updatable

\* new ROS3D.SceneNode({frameID, tfClient, object}): subscribes to the frame
\* and holds the object as children[0].  `key` and `pair` tag the node with
\* the key and the (ns, id) pair it was created for; `via` names the path
\* that removed it.
SceneNode(key, message, newMarker) ==
  [key |-> key, pair |-> <<message.ns, message.id>>,
   frameID |-> message.frame_id, tf |-> TRUE,
   children |-> <<newMarker>>, log |-> <<>>, via |-> "none"]

\* Identity of the next object constructed: one no node of the heap has.
Fresh(heap) == CHOOSE i \in 1..(Cardinality(DOMAIN heap) + 1) : i \notin DOMAIN heap

(***************************************************************************)
(* A world is the part of the state the handlers read and write, the calls *)
(* a handler has made, and whether an exception has ended it.              *)
(***************************************************************************)
World ==
  [nodes |-> nodes, markers |-> markers, order |-> order,
   rootObject |-> rootObject, updatedTime |-> updatedTime, timers |-> timers,
   trace |-> <<>>, thrown |-> FALSE]

Without(f, k) == [x \in DOMAIN f \ {k} |-> f[x]]
With(f, k, v) == [x \in DOMAIN f \cup {k} |-> IF x = k THEN v ELSE f[x]]

emit(w, event) == [w EXCEPT !.trace = Append(@, event)]

isRenderItem(obj) == "geometry" \in DOMAIN obj /\ "material" \in DOMAIN obj

\* A JavaScript value is named by its literal: "undefined", "null", "true",
\* "false", "0", "NaN", "''"; "obj" stands for an object, and "array0",
\* "array1", "array2" for an array of that many objects.  The falsy values:
Falsy(value) == value \in {"undefined", "null", "false", "0", "NaN", "''", "\"\""}

\* The values with a method dispose().
Disposable(value) == value = "obj"

\* No object: the argument of disposeObject when it is undefined.
Undefined == <<>>

\* [].concat(obj.material): the elements of an array, or the value itself.
Materials(material) ==
  CASE material = "array0" -> <<>>
    [] material = "array1" -> <<"obj">>
    [] material = "array2" -> <<"obj", "obj">>
    [] OTHER -> <<material>>

\* disposeMaterial(obj): nothing for an object that is no render item;
\* otherwise material.dispose() of each material, and a TypeError, which
\* ends the calls, at one that has no such method.
disposeMaterial(obj) ==
  IF ~isRenderItem(obj) THEN <<>>
  ELSE LET materials == Materials(obj.material)
           calls[i \in 1..(Len(materials) + 1)] ==
             IF i > Len(materials) THEN <<>>
             ELSE IF ~Disposable(materials[i]) THEN <<"TypeError">>
             ELSE <<"material.dispose">> \o calls[i + 1]
       IN  calls[1]

\* The calls have ended with an exception.
Thrown(calls) == Len(calls) > 0 /\ calls[Len(calls)] = "TypeError"

\* The calls without the exception that ended them.
Made(calls) == IF Thrown(calls) THEN SubSeq(calls, 1, Len(calls) - 1) ELSE calls

\* disposeObject(obj, removeFromParent, destroyGeometry, destroyMaterial):
\* the calls it makes on obj, in order.  removeFromParent is not read.
disposeObject(obj, removeFromParent, destroyGeometry, destroyMaterial) ==
  <<"disposeObject">> \o
  (IF obj = Undefined THEN <<>>
   ELSE IF isRenderItem(obj)
   THEN LET geometry ==
              IF Falsy(obj.geometry) \/ ~destroyGeometry THEN <<>>
              ELSE IF Disposable(obj.geometry) THEN <<"geometry.dispose">>
              ELSE <<"TypeError">>
        IN  IF Thrown(geometry) \/ ~destroyMaterial THEN geometry
            ELSE geometry \o disposeMaterial(obj)
   ELSE <<>>)

\* The body of the forEach over oldNode.children: the calls made, in order.
\* An exception of disposeObject ends the loop.
RECURSIVE disposeChildren(_, _)
disposeChildren(children, i) ==
  IF i > Len(children) THEN <<>>
  ELSE <<"child.dispose">> \o disposeObject(children[i], TRUE, TRUE, TRUE)
       \o (IF Thrown(disposeObject(children[i], TRUE, TRUE, TRUE)) THEN <<>>
           ELSE (IF children[i].resource THEN <<"resource.dispose">> ELSE <<>>)
                \o disposeChildren(children, i + 1))

(***************************************************************************)
(* ROS3D.MarkerArrayClient                                                 *)
(***************************************************************************)
\* removeMarker(key).  An exception of disposeObject leaves it before
\* delete(this.markers[key]).
MarkerArrayClient_removeMarker(w, key, path) ==
  IF key \notin DOMAIN w.markers THEN w
  ELSE LET oldNode == w.markers[key]
           calls   == disposeChildren(w.nodes[oldNode].children, 1)
       IN  IF Thrown(calls)
           THEN [w EXCEPT
                   !.nodes[oldNode].tf  = FALSE,
                   !.nodes[oldNode].via = path,
                   !.nodes[oldNode].log =
                      @ \o <<"unsubscribeTf", "rootObject.remove">> \o Made(calls),
                   !.rootObject = @ \ {oldNode},
                   !.thrown = TRUE]
           ELSE [w EXCEPT
                   !.nodes[oldNode].tf  = FALSE,
                   !.nodes[oldNode].via = path,
                   !.nodes[oldNode].log =
                      @ \o <<"unsubscribeTf", "rootObject.remove">>
                        \o calls \o <<"delete">>,
                   !.rootObject = @ \ {oldNode},
                   !.markers = Without(@, key),
                   !.order = Deleted(@, key)]

\* The "ADD" branch: construct marker and node, register, attach.  Not
\* reached when removeMarker has thrown.
MarkerArrayClient_add(w, message) ==
  LET key  == Key(message)
      node == SceneNode(key, message, Marker(message))
      id   == Fresh(w.nodes)
  IN  IF w.thrown THEN w
      ELSE [w EXCEPT !.nodes = With(@, id, node),
                     !.markers = With(@, key, id),
                     !.order = Assigned(@, key),
                     !.rootObject = @ \cup {id}]

\* Mutant: delete-all that only resets the map, tearing nothing down.
MarkerArrayClient_removeAll_clearOnly(w, ks) ==
  [w EXCEPT !.markers = <<>>, !.order = <<>>]

\* for (var m in this.markers) this.removeMarker(m); this.markers = {}
\* ks are the keys the loop has still to visit, in its order.  An exception
\* of removeMarker ends the loop before the map is reset.
RECURSIVE MarkerArrayClient_removeAll(_, _)
MarkerArrayClient_removeAll(w, ks) ==
  IF w.thrown THEN w
  ELSE IF ks = <<>> THEN [w EXCEPT !.markers = <<>>, !.order = <<>>]
  ELSE MarkerArrayClient_removeAll(
         MarkerArrayClient_removeMarker(w, Head(ks), "deleteAll"), Tail(ks))

\* Mutant: the callback rebuilding the node on every upsert of a present
\* key, whatever update(message) returned.
MarkerArrayClient_processMarker_alwaysRebuilds(w0, message) ==
  LET w   == emit(w0, "marker")
      key == Key(message)
  IN  IF message.action = 0 THEN
        IF message.type \notin hiddenTypes THEN
          MarkerArrayClient_add(
            MarkerArrayClient_removeMarker(w, key, "replace"), message)
        ELSE w
      ELSE IF message.action = 1 THEN emit(w, "warn")
      ELSE IF message.action = 2 THEN MarkerArrayClient_removeMarker(w, key, "delete")
      ELSE IF message.action = 3 THEN MarkerArrayClient_removeAll(w, forIn(w.order))
      ELSE emit(w, "warn")

\* Mutant: the callback treating every action code other than 0 and 3 as a
\* delete, as MarkerClient.processMessage does for a present key.
MarkerArrayClient_processMarker_unknownRemoves(w0, message) ==
  LET w   == emit(w0, "marker")
      key == Key(message)
  IN  IF message.action = 0 THEN
        IF message.type \notin hiddenTypes THEN
          IF key \in DOMAIN w.markers THEN
            IF Marker_update(w.nodes[w.markers[key]].children[1], message)
            THEN w
            ELSE MarkerArrayClient_add(
                   MarkerArrayClient_removeMarker(w, key, "replace"), message)
          ELSE MarkerArrayClient_add(w, message)
        ELSE w
      ELSE IF message.action = 3 THEN MarkerArrayClient_removeAll(w, forIn(w.order))
      ELSE IF message.action = 2 THEN MarkerArrayClient_removeMarker(w, key, "delete")
      ELSE emit(MarkerArrayClient_removeMarker(w, key, "unknown"), "warn")

\* Mutant: the callback consulting hiddenTypes only before adding a new
\* entry, so that a hidden upsert still updates or replaces a present one.
MarkerArrayClient_processMarker_hiddenUpdates(w0, message) ==
  LET w   == emit(w0, "marker")
      key == Key(message)
  IN  IF message.action = 0 THEN
        IF key \in DOMAIN w.markers THEN
          IF Marker_update(w.nodes[w.markers[key]].children[1], message)
          THEN w
          ELSE MarkerArrayClient_add(
                 MarkerArrayClient_removeMarker(w, key, "replace"), message)
        ELSE IF message.type \notin hiddenTypes
             THEN MarkerArrayClient_add(w, message)
             ELSE w
      ELSE IF message.action = 1 THEN emit(w, "warn")
      ELSE IF message.action = 2 THEN MarkerArrayClient_removeMarker(w, key, "delete")
      ELSE IF message.action = 3 THEN MarkerArrayClient_removeAll(w, forIn(w.order))
      ELSE emit(w, "warn")

\* The callback of arrayMessage.markers.forEach.
MarkerArrayClient_processMarker(w0, message) ==
  LET w   == emit(w0, "marker")
      key == Key(message)
  IN  IF message.action = 0 THEN
        IF message.type \notin hiddenTypes THEN
          IF key \in DOMAIN w.markers THEN
            IF Marker_update(w.nodes[w.markers[key]].children[1], message)
            THEN w
            ELSE MarkerArrayClient_add(
                   MarkerArrayClient_removeMarker(w, key, "replace"), message)
          ELSE MarkerArrayClient_add(w, message)
        ELSE w
      ELSE IF message.action = 1 THEN emit(w, "warn")
      ELSE IF message.action = 2 THEN MarkerArrayClient_removeMarker(w, key, "delete")
      ELSE IF message.action = 3 THEN MarkerArrayClient_removeAll(w, forIn(w.order))
      ELSE emit(w, "warn")

RECURSIVE MarkerArrayClient_forEach(_, _, _)
MarkerArrayClient_forEach(w, ms, i) ==
  IF w.thrown \/ i > Len(ms) THEN w
  ELSE MarkerArrayClient_forEach(MarkerArrayClient_processMarker(w, ms[i]), ms, i + 1)

\* Mutant: processMessage notifying only when the array carried a marker.
MarkerArrayClient_handle_emitIfAny(w, arrayMessage) ==
  IF Len(arrayMessage.markers) = 0 THEN w
  ELSE emit(MarkerArrayClient_forEach(w, arrayMessage.markers, 1), "change")

\* processMessage: every marker in array order, then emit('change').  An
\* exception of a callback ends the forEach and the handler.
MarkerArrayClient_handle(w, arrayMessage) ==
  LET w1 == MarkerArrayClient_forEach(w, arrayMessage.markers, 1)
  IN  IF w1.thrown THEN w1 ELSE emit(w1, "change")

\* Mutant: removeArray dropping the map without detaching the nodes.
RECURSIVE MarkerArrayClient_removeEach_keepsAttached(_, _)
MarkerArrayClient_removeEach_keepsAttached(w, ks) ==
  IF ks = <<>> THEN [w EXCEPT !.markers = <<>>, !.order = <<>>]
  ELSE LET key == Head(ks)
           n   == w.markers[key]
           w1  == [w EXCEPT
                     !.nodes[n].tf  = FALSE,
                     !.nodes[n].via = "removeArray",
                     !.nodes[n].log = @ \o <<"unsubscribeTf", "child.dispose">>]
       IN  MarkerArrayClient_removeEach_keepsAttached(w1, Tail(ks))

\* removeArray: per key, in the order of for-in, unsubscribeTf,
\* children[0].dispose, rootObject.remove; then this.markers = {}.
RECURSIVE MarkerArrayClient_removeEach(_, _)
MarkerArrayClient_removeEach(w, ks) ==
  IF ks = <<>> THEN [w EXCEPT !.markers = <<>>, !.order = <<>>]
  ELSE LET key == Head(ks)
           n   == w.markers[key]
           w1  == [w EXCEPT
                     !.nodes[n].tf  = FALSE,
                     !.nodes[n].via = "removeArray",
                     !.nodes[n].log = @ \o <<"unsubscribeTf", "child.dispose",
                                             "rootObject.remove">>,
                     !.rootObject = @ \ {n}]
       IN  MarkerArrayClient_removeEach(w1, Tail(ks))

(***************************************************************************)
(* ROS3D.MarkerClient                                                      *)
(***************************************************************************)
\* Mutant: removeMarker leaving the old node attached to rootObject.
MarkerClient_removeMarker_keepsAttached(w, key, path) ==
  IF key \notin DOMAIN w.markers THEN w
  ELSE LET oldNode == w.markers[key]
       IN  [w EXCEPT
              !.nodes[oldNode].tf  = FALSE,
              !.nodes[oldNode].via = path,
              !.nodes[oldNode].log =
                 @ \o <<"unsubscribeTf">>
                   \o disposeChildren(w.nodes[oldNode].children, 1)
                   \o <<"delete">>,
              !.markers = Without(@, key),
              !.order = Deleted(@, key)]

\* removeMarker(key), as in the MarkerArrayClient.
MarkerClient_removeMarker(w, key, path) ==
  IF key \notin DOMAIN w.markers THEN w
  ELSE LET oldNode == w.markers[key]
           calls   == disposeChildren(w.nodes[oldNode].children, 1)
       IN  IF Thrown(calls)
           THEN [w EXCEPT
                   !.nodes[oldNode].tf  = FALSE,
                   !.nodes[oldNode].via = path,
                   !.nodes[oldNode].log =
                      @ \o <<"unsubscribeTf", "rootObject.remove">> \o Made(calls),
                   !.rootObject = @ \ {oldNode},
                   !.thrown = TRUE]
           ELSE [w EXCEPT
                   !.nodes[oldNode].tf  = FALSE,
                   !.nodes[oldNode].via = path,
                   !.nodes[oldNode].log =
                      @ \o <<"unsubscribeTf", "rootObject.remove">>
                        \o calls \o <<"delete">>,
                   !.rootObject = @ \ {oldNode},
                   !.markers = Without(@, key),
                   !.order = Deleted(@, key)]

\* Mutant: checkTime expiring as soon as the lifetime has elapsed (>=).
MarkerClient_checkTime_atLifetime(w, name, curTime) ==
  IF curTime - w.updatedTime[name] >= lifetime
  THEN emit(MarkerClient_removeMarker(w, name, "expiry"), "change")
  ELSE [w EXCEPT !.timers = @ (+) SetToBag({[name |-> name, due |-> curTime + PollInterval]})]

\* Mutant: checkTime that does not poll again when the entity is still fresh.
MarkerClient_checkTime_once(w, name, curTime) ==
  IF curTime - w.updatedTime[name] > lifetime
  THEN emit(MarkerClient_removeMarker(w, name, "expiry"), "change")
  ELSE w

\* Mutant: checkTime comparing the clock itself, not the time elapsed since
\* the last message, against the lifetime.
MarkerClient_checkTime_absolute(w, name, curTime) ==
  IF curTime > lifetime
  THEN emit(MarkerClient_removeMarker(w, name, "expiry"), "change")
  ELSE [w EXCEPT !.timers = @ (+) SetToBag({[name |-> name, due |-> curTime + PollInterval]})]

\* checkTime(name) run at time curTime: expire, or poll again in 100 ms.
MarkerClient_checkTime(w, name, curTime) ==
  IF curTime - w.updatedTime[name] > lifetime
  THEN LET w1 == MarkerClient_removeMarker(w, name, "expiry")
       IN  IF w1.thrown THEN w1 ELSE emit(w1, "change")
  ELSE [w EXCEPT !.timers = @ (+) SetToBag({[name |-> name, due |-> curTime + PollInterval]})]

MarkerClient_add(w, message) ==
  LET key  == Key(message)
      node == SceneNode(key, message, Marker(message))
      id   == Fresh(w.nodes)
  IN  [w EXCEPT !.nodes = With(@, id, node),
                !.markers = With(@, key, id),
                !.order = Assigned(@, key),
                !.rootObject = @ \cup {id}]

\* The removal path an action code other than 0 takes (a label, for the log).
PathOf(action) ==
  IF action = 2 THEN "delete" ELSE IF action = 3 THEN "deleteAll" ELSE "unknown"

\* Mutant: processMessage starting the poll of an absent key whatever the
\* configured lifetime.
MarkerClient_handle_alwaysPolls(w0, message, curTime) ==
  LET key     == Key(message)
      oldNode == key \in DOMAIN w0.markers
      w1      == [w0 EXCEPT !.updatedTime = With(@, key, curTime)]
      updated == /\ oldNode
                 /\ message.action = 0
                 /\ Marker_update(w1.nodes[w1.markers[key]].children[1], message)
      w2      == IF oldNode THEN
                   IF message.action = 0 THEN
                     IF updated THEN w1
                     ELSE MarkerClient_removeMarker(w1, key, "replace")
                   ELSE MarkerClient_removeMarker(w1, key, PathOf(message.action))
                 ELSE MarkerClient_checkTime(w1, key, curTime)
      w3      == IF message.action = 0 /\ ~updated
                 THEN MarkerClient_add(w2, message) ELSE w2
  IN  emit(w3, "change")

\* processMessage(message) run at time curTime.
MarkerClient_handle(w0, message, curTime) ==
  LET key     == Key(message)
      oldNode == key \in DOMAIN w0.markers
      w1      == [w0 EXCEPT !.updatedTime = With(@, key, curTime)]
      updated == /\ oldNode
                 /\ message.action = 0
                 /\ Marker_update(w1.nodes[w1.markers[key]].children[1], message)
      w2      == IF oldNode THEN
                   IF message.action = 0 THEN
                     IF updated THEN w1
                     ELSE MarkerClient_removeMarker(w1, key, "replace")
                   ELSE MarkerClient_removeMarker(w1, key, PathOf(message.action))
                 ELSE IF lifetime # 0 THEN MarkerClient_checkTime(w1, key, curTime)
                 ELSE w1
      w3      == IF message.action = 0 /\ ~updated
                 THEN MarkerClient_add(w2, message) ELSE w2
  IN  IF w2.thrown THEN w2 ELSE emit(w3, "change")

(***************************************************************************)
(* Actions.  A handler is enabled when the event loop is idle and runs to  *)
(* completion; `last` then holds the event until the loop is idle again.   *)
(***************************************************************************)
Idle == [op |-> "idle", msg |-> <<>>, name |-> <<>>, trace |-> <<>>]

Commit(w, op, msg, name) ==
  /\ last.op = "idle"
  /\ BagCardinality(w.timers) <= MaxTimers
  /\ nodes' = w.nodes
  /\ markers' = w.markers
  /\ order' = w.order
  /\ rootObject' = w.rootObject
  /\ updatedTime' = w.updatedTime
  /\ timers' = w.timers
  /\ last' = [op |-> op, msg |-> msg, name |-> name, trace |-> w.trace]
  /\ UNCHANGED <<viewer, urdf>>

MarkerArrayClient_processMessage(arrayMessage) ==
  /\ kind = "MarkerArrayClient"
  /\ rosTopic
  /\ Commit(MarkerArrayClient_handle(World, arrayMessage),
            "processMessage", arrayMessage.markers, <<>>)
  /\ UNCHANGED <<kind, hiddenTypes, lifetime, now, rosTopic>>

MarkerArrayClient_removeArray ==
  /\ kind = "MarkerArrayClient"
  /\ Commit(MarkerArrayClient_removeEach(World, forIn(order)),
            "removeArray", <<>>, <<>>)
  /\ rosTopic' = FALSE
  /\ UNCHANGED <<kind, hiddenTypes, lifetime, now>>

MarkerClient_processMessage(message) ==
  /\ kind = "MarkerClient"
  /\ rosTopic
  /\ Commit(MarkerClient_handle(World, message, now),
            "processMessage", <<message>>, <<>>)
  /\ UNCHANGED <<kind, hiddenTypes, lifetime, now, rosTopic>>

\* A pending setTimeout callback of checkTime runs, at or after its due time:
\* w0 is the registry without the timer that fired, w the one checkTime leaves.
MarkerClient_timeout ==
  /\ kind = "MarkerClient"
  /\ last.op = "idle"
  /\ \E t \in BagToSet(timers) :
       /\ t.due <= now
       /\ \E w0 \in {[World EXCEPT !.timers = @ (-) SetToBag({t})]} :
            \E w \in {MarkerClient_checkTime(w0, t.name, now)} :
              Commit(w, "checkTime", <<>>, t.name)
  /\ UNCHANGED <<kind, hiddenTypes, lifetime, now, rosTopic>>

\* subscribe() / unsubscribe() of either registry.  subscribe() unsubscribes
\* and subscribes a new topic; unsubscribe() of a client whose topic is
\* unsubscribed already changes nothing.
subscribe ==
  /\ kind \in {"MarkerArrayClient", "MarkerClient"}
  /\ rosTopic' = TRUE
  /\ Commit(World, "subscribe", <<>>, <<>>)
  /\ UNCHANGED <<kind, hiddenTypes, lifetime, now>>

unsubscribe ==
  /\ kind \in {"MarkerArrayClient", "MarkerClient"}
  /\ rosTopic' = FALSE
  /\ Commit(World, "unsubscribe", <<>>, <<>>)
  /\ UNCHANGED <<kind, hiddenTypes, lifetime, now>>

\* The handler has returned.  Nodes that neither the registry, the scene nor
\* a TF subscription refers to are unreachable and leave the heap.
Reachable == { n \in DOMAIN nodes :
                 \/ n \in rootObject
                 \/ \E k \in DOMAIN markers : markers[k] = n
                 \/ nodes[n].tf }

Return ==
  /\ last.op # "idle"
  /\ last' = Idle
  /\ nodes' = [n \in Reachable |-> nodes[n]]
  /\ UNCHANGED <<kind, markers, order, rootObject, hiddenTypes, lifetime, updatedTime,
                 timers, now, rosTopic, viewer, urdf>>

\* Wall-clock time passes while the event loop is idle.
Tick ==
  /\ kind = "MarkerClient"
  /\ last.op = "idle"
  /\ now < MaxTicks * TickStep
  /\ now' = now + TickStep
  /\ UNCHANGED <<kind, nodes, markers, order, rootObject, hiddenTypes, lifetime,
                 updatedTime, timers, rosTopic, last, viewer, urdf>>

(***************************************************************************)
(* Specifications                                                          *)
(***************************************************************************)
InitCommon ==
  /\ nodes = <<>>
  /\ markers = <<>>
  /\ order = <<>>
  /\ rootObject = {}
  /\ updatedTime = <<>>
  /\ timers = EmptyBag
  /\ now = 0
  /\ rosTopic = TRUE
  /\ last = Idle

InitArray ==
  /\ kind = "MarkerArrayClient"
  /\ hiddenTypes \in HiddenTypeSets
  /\ lifetime = 0
  /\ InitCommon
  /\ viewer = <<>>
  /\ urdf = <<>>

InitClient ==
  /\ kind = "MarkerClient"
  /\ hiddenTypes = {}
  /\ lifetime \in Lifetimes
  /\ InitCommon
  /\ viewer = <<>>
  /\ urdf = <<>>

\* The topic delivers a message only to a subscribed client, between events.
Deliverable(class) == kind = class /\ rosTopic /\ last.op = "idle"

NextArray ==
  \/ /\ Deliverable("MarkerArrayClient")
     /\ \E arrayMessage \in ArrayMessages : MarkerArrayClient_processMessage(arrayMessage)
  \/ MarkerArrayClient_removeArray
  \/ subscribe
  \/ unsubscribe
  \/ Return

NextClient ==
  \/ /\ Deliverable("MarkerClient")
     /\ \E message \in Messages : MarkerClient_processMessage(message)
  \/ MarkerClient_timeout
  \/ subscribe
  \/ unsubscribe
  \/ Tick
  \/ Return

\* A MarkerArrayClient alone, a MarkerClient alone, and either of the two.
SpecArray  == InitArray /\ [][NextArray]_vars
SpecClient == InitClient /\ [][NextClient]_vars
Spec       == (InitArray \/ InitClient) /\ [][NextArray \/ NextClient]_vars

(***************************************************************************)
(* A MarkerArrayClient fed with longer arrays of the markers that change   *)
(* the registry: upserts that replace, deletes and a delete-all.           *)
(***************************************************************************)
BatchMarkers ==
  { Msg(0, p, t, FALSE) : p \in Pairs, t \in Types }
    \cup { Msg(2, p, CUBE, FALSE) : p \in Pairs }
    \cup { Msg(3, <<<<"a">>, 1>>, CUBE, FALSE) }

BatchMessages == { [markers |-> s] : s \in SeqsUpTo(BatchMarkers, MaxBatchLen) }

NextBatch ==
  \/ /\ Deliverable("MarkerArrayClient")
     /\ \E arrayMessage \in BatchMessages : MarkerArrayClient_processMessage(arrayMessage)
  \/ MarkerArrayClient_removeArray
  \/ subscribe
  \/ unsubscribe
  \/ Return

SpecBatch == InitArray /\ [][NextBatch]_vars

(***************************************************************************)
(* Expiry scenarios of a MarkerClient with a nonzero lifetime.             *)
(***************************************************************************)
\* Wall-clock time passes in a scenario, up to MaxElapse clock steps.
Elapse ==
  /\ kind = "MarkerClient"
  /\ last.op = "idle"
  /\ now < MaxElapse * TickStep
  /\ now' = now + TickStep
  /\ UNCHANGED <<kind, nodes, markers, order, rootObject, hiddenTypes, lifetime,
                 updatedTime, timers, rosTopic, last, viewer, urdf>>

InitExpiry ==
  /\ kind = "MarkerClient"
  /\ hiddenTypes = {}
  /\ lifetime \in Lifetimes \ {0}
  /\ InitCommon
  /\ viewer = <<>>
  /\ urdf = <<>>

\* One upsert, at any time, is the only message the client ever receives.
NextExpiry ==
  \/ /\ Deliverable("MarkerClient")
     /\ updatedTime = <<>>
     /\ \E message \in Upserts : MarkerClient_processMessage(message)
  \/ MarkerClient_timeout
  \/ Elapse
  \/ Return

SpecExpiry == InitExpiry /\ [][NextExpiry]_vars

\* Messages of any kind arrive during the first clock step and none after it.
NextPoll ==
  \/ /\ Deliverable("MarkerClient")
     /\ now <= TickStep
     /\ \E message \in Messages : MarkerClient_processMessage(message)
  \/ MarkerClient_timeout
  \/ Elapse
  \/ Return

\* The clock advances, a due timer callback is eventually run, and a handler
\* returns.
SpecPoll ==
  /\ InitExpiry
  /\ [][NextPoll]_vars
  /\ SF_vars(Elapse)
  /\ SF_vars(MarkerClient_timeout)
  /\ WF_vars(Return)

(***************************************************************************)
(* JavaScript numbers: IEEE 754 binary64, every operation rounded to the   *)
(* nearest representable number, ties to even.                             *)
(***************************************************************************)
\* A natural number of any size is the sequence of its digits in base 2^15,
\* least significant first, the last one nonzero.
Base == 2^15

\* The digits, the naturals as sequences of digits, and <<quotient,
\* remainder>> pairs.
Limb == 0..(Base - 1)
Natural == Seq(Limb)
Pair == Natural \X Natural

\* a without its leading zero digits.
Trim[a \in Natural] ==
  IF a # <<>> /\ a[Len(a)] = 0 THEN Trim[SubSeq(a, 1, Len(a) - 1)] ELSE a

BigAdd[a \in Natural, b \in Natural] ==
  LET AddFrom[i \in Nat, carry \in {0, 1}] ==
        IF i > Len(a) /\ i > Len(b) THEN (IF carry = 0 THEN <<>> ELSE <<carry>>)
        ELSE LET t == (IF i <= Len(a) THEN a[i] ELSE 0)
                        + (IF i <= Len(b) THEN b[i] ELSE 0) + carry
             IN  <<t % Base>> \o AddFrom[i + 1, t \div Base]
  IN  AddFrom[1, 0]

\* a - b, for a >= b.
BigSub[a \in Natural, b \in Natural] ==
  LET SubFrom[i \in Nat, borrow \in {0, 1}] ==
        IF i > Len(a) THEN <<>>
        ELSE LET t == a[i] - (IF i <= Len(b) THEN b[i] ELSE 0) - borrow
             IN  <<(t + Base) % Base>> \o SubFrom[i + 1, IF t < 0 THEN 1 ELSE 0]
  IN  Trim[SubFrom[1, 0]]

BigLess[a \in Natural, b \in Natural] ==
  LET LessFrom[i \in Nat] ==
        IF i = 0 THEN FALSE
        ELSE IF a[i] # b[i] THEN a[i] < b[i] ELSE LessFrom[i - 1]
  IN  IF Len(a) # Len(b) THEN Len(a) < Len(b) ELSE LessFrom[Len(a)]

\* a * d, for a digit d.
MulSmall[a \in Natural, d \in Limb] ==
  LET MulFrom[i \in Nat, carry \in Limb] ==
        IF i > Len(a) THEN (IF carry = 0 THEN <<>> ELSE <<carry>>)
        ELSE LET t == a[i] * d + carry
             IN  <<t % Base>> \o MulFrom[i + 1, t \div Base]
  IN  Trim[MulFrom[1, 0]]

BigMul[a \in Natural, b \in Natural] ==
  LET MulAcc[j \in Nat] ==
        IF j > Len(b) THEN <<>>
        ELSE BigAdd[MulSmall[a, b[j]], <<0>> \o MulAcc[j + 1]]
  IN  Trim[MulAcc[1]]

\* a \div d, for a digit d > 0.
DivSmall[a \in Natural, d \in Limb] ==
  LET RemFrom[i \in Nat] ==
        IF i > Len(a) THEN 0 ELSE (RemFrom[i + 1] * Base + a[i]) % d
  IN  Trim[[i \in 1..Len(a) |-> (RemFrom[i + 1] * Base + a[i]) \div d]]

\* a * 2^k.
Shl[a \in Natural, k \in Nat] ==
  IF a = <<>> THEN <<>>
  ELSE [i \in 1..(k \div 15) |-> 0] \o MulSmall[a, 2^(k % 15)]

\* a \div 2^k.
Shr[a \in Natural, k \in Nat] ==
  DivSmall[SubSeq(a, (k \div 15) + 1, Len(a)), 2^(k % 15)]

\* The number of binary digits of a.
BitLength[a \in Natural] ==
  IF a = <<>> THEN 0
  ELSE 15 * (Len(a) - 1)
         + CHOOSE n \in 1..15 : 2^(n - 1) <= a[Len(a)] /\ a[Len(a)] < 2^n

\* The digit of the quotient of r by b, for r < b * Base and b whose
\* leading digit is at least Base / 2: the quotient of the two leading
\* digits of r by the leading digit of b, or below it by 1 or 2.
Largest[r \in Natural, b \in Natural] ==
  LET lead  == (IF Len(r) > Len(b) THEN r[Len(b) + 1] * Base ELSE 0)
                 + (IF Len(r) >= Len(b) THEN r[Len(b)] ELSE 0)
      guess == IF lead \div b[Len(b)] < Base THEN lead \div b[Len(b)] ELSE Base - 1
  IN  IF ~BigLess[r, MulSmall[b, guess]] THEN guess
      ELSE IF ~BigLess[r, MulSmall[b, guess - 1]] THEN guess - 1
      ELSE guess - 2

\* One digit of the long division by b: q is the quotient so far, r what
\* is left of the dividend, and d the digit.
DivDigit[q \in Natural, r \in Natural, b \in Natural, d \in Limb] ==
  <<Trim[<<d>> \o q], BigSub[r, MulSmall[b, d]]>>

\* One step of the long division by b: up is <<quotient, remainder>> of
\* the digits above the digit x.
DivStep[up \in Pair, x \in Limb, b \in Natural] ==
  DivDigit[up[1], Trim[<<x>> \o up[2]], b, Largest[Trim[<<x>> \o up[2]], b]]

\* <<a \div b, a % b>>, for b whose leading digit is at least Base / 2: long
\* division, a digit at a time, from the leading digit of a.
LongDiv[a \in Natural, b \in Natural] ==
  LET DivFrom[i \in Nat] ==
        IF i > Len(a) THEN << <<>>, <<>> >>
        ELSE DivStep[DivFrom[i + 1], a[i], b]
  IN  DivFrom[1]

\* <<a \div b, a % b>>, for b > 0: both are scaled by 2^k to make the
\* leading digit of b at least Base / 2.
BigDiv[a \in Natural, b \in Natural] ==
  LET k == 15 * Len(b) - BitLength[b]
      Unscaled[qr \in Pair] == <<qr[1], Shr[qr[2], k]>>
  IN  Unscaled[LongDiv[Shl[a, k], Shl[b, k]]]

\* Newton's iteration for the root of n, downward from x: y is the next
\* approximation.
Newton[n \in Natural, x \in Natural] ==
  LET Better[y \in Natural] == IF BigLess[y, x] THEN Newton[n, y] ELSE x
  IN  Better[Shr[BigAdd[x, BigDiv[n, x][1]], 1]]

\* The largest r with r * r <= sq, for sq < Base * Base.
Root[sq \in Nat, lo \in Limb, hi \in Limb] ==
  IF lo = hi THEN lo
  ELSE IF ((lo + hi + 1) \div 2) * ((lo + hi + 1) \div 2) <= sq
    THEN Root[sq, (lo + hi + 1) \div 2, hi]
  ELSE Root[sq, lo, ((lo + hi + 1) \div 2) - 1]

\* The largest s with s * s <= n: Newton's iteration, downward from the
\* root of the leading 30 binary digits of n, rounded up.
Isqrt[n \in Natural] ==
  LET j == IF BitLength[n] > 30 THEN (BitLength[n] - 29) \div 2 ELSE 0
      Leading[top \in Natural] ==
        (IF Len(top) > 1 THEN top[2] * Base ELSE 0)
          + (IF Len(top) > 0 THEN top[1] ELSE 0)
      Above[root \in Nat] == Shl[<<root % Base, root \div Base>>, j]
  IN  IF n = <<>> THEN <<>>
      ELSE Newton[n, Above[Root[Leading[Shr[n, 2 * j]], 0, Base - 1] + 1]]

\* A number is NaN, an infinity, or (-1)^s * m * 2^e with m < 2^53 and
\* e in -1074..971, where m >= 2^52 unless e = -1074.  Zero has a sign.
Float == [c : {"NaN", "Infinity", "finite"}, s : {0, 1}, m : Natural, e : Int]
NaN == [c |-> "NaN", s |-> 0, m |-> <<>>, e |-> 0]
Infinity(s) == [c |-> "Infinity", s |-> s, m |-> <<>>, e |-> 0]
Finite(s, m, e) == [c |-> "finite", s |-> s, m |-> m, e |-> e]
Zero(s) == Finite(s, <<>>, -1074)
IsZero(a) == a.c = "finite" /\ a.m = <<>>

\* m / 2^k, for k > 0, rounded to the nearest natural, a tie to the even
\* one; with sticky, m / 2^k stands for a number slightly above it.
Nearest[m \in Natural, k \in Nat, sticky \in BOOLEAN] ==
  LET q2   == Shr[m, k - 1]
      q    == Shr[q2, 1]
      half == q2 # <<>> /\ q2[1] % 2 = 1
      odd  == q # <<>> /\ q[1] % 2 = 1
      more == sticky \/ Shl[q2, k - 1] # m
  IN  IF half /\ (more \/ odd) THEN BigAdd[q, <<1>>] ELSE q

\* (-1)^s * r * 2^e for r of at most 54 binary digits, the lowest 0 when
\* they are 54.
Pack[s \in {0, 1}, r \in Natural, e \in Int] ==
  LET over == BitLength[r] > 53
      m2   == IF over THEN Shr[r, 1] ELSE r
      e2   == IF over THEN e + 1 ELSE e
  IN  IF BitLength[m2] = 53 /\ e2 > 971 THEN Infinity(s) ELSE Finite(s, m2, e2)

\* (-1)^s * (m + f) * 2^e rounded, where 0 <= f < 1 and f is nonzero iff
\* sticky; with sticky, m has 55 binary digits or more.
Round[s \in {0, 1}, m \in Natural, e \in Int, sticky \in BOOLEAN] ==
  LET n  == BitLength[m]
      e2 == IF e + n - 53 > -1074 THEN e + n - 53 ELSE -1074
  IN  IF m = <<>> THEN Zero(s)
      ELSE IF e2 <= e
        THEN (IF e2 > 971 THEN Infinity(s) ELSE Finite(s, Shl[m, e - e2], e2))
      ELSE Pack[s, Nearest[m, e2 - e, sticky], e2]

\* The number an integer literal denotes.
Number(n) ==
  LET Digits[k \in Nat] ==
        IF k = 0 THEN <<>> ELSE <<k % Base>> \o Digits[k \div Base]
  IN  Round[IF n < 0 THEN 1 ELSE 0, Digits[IF n < 0 THEN 0 - n ELSE n], 0, FALSE]

\* The exact sum of two finite nonzero numbers, as <<s, m, e, sticky>>.
Sum[a \in Float, b \in Float] ==
  LET \* y is below 2^-8 of the last place of x: it only decides on
      \* which side of x the sum lies
      Far[x \in Float, y \in Float] ==
        <<x.s, IF x.s = y.s THEN Shl[x.m, 3] ELSE BigSub[Shl[x.m, 3], <<1>>],
          x.e - 3, TRUE>>
      e == IF a.e < b.e THEN a.e ELSE b.e
      Aligned[x \in Natural, y \in Natural] ==
        IF a.s = b.s THEN <<a.s, BigAdd[x, y], e, FALSE>>
        ELSE IF x = y THEN <<0, <<>>, e, FALSE>>
        ELSE IF BigLess[x, y] THEN <<b.s, BigSub[y, x], e, FALSE>>
        ELSE <<a.s, BigSub[x, y], e, FALSE>>
  IN  IF a.e - b.e > 60 THEN Far[a, b]
      ELSE IF b.e - a.e > 60 THEN Far[b, a]
      ELSE Aligned[Shl[a.m, a.e - e], Shl[b.m, b.e - e]]

Rounded[t \in {0, 1} \X Natural \X Int \X BOOLEAN] == Round[t[1], t[2], t[3], t[4]]

\* a + b.
Plus[a \in Float, b \in Float] ==
  IF a.c = "NaN" \/ b.c = "NaN" THEN NaN
  ELSE IF a.c = "Infinity"
    THEN (IF b.c = "Infinity" /\ b.s # a.s THEN NaN ELSE a)
  ELSE IF b.c = "Infinity" THEN b
  ELSE IF a.m = <<>> /\ b.m = <<>> THEN Zero(IF a.s = 1 /\ b.s = 1 THEN 1 ELSE 0)
  ELSE IF a.m = <<>> THEN b
  ELSE IF b.m = <<>> THEN a
  ELSE Rounded[Sum[a, b]]

\* a - b.
Minus[a \in Float, b \in Float] ==
  Plus[a, IF b.c = "NaN" THEN b ELSE [b EXCEPT !.s = 1 - @]]

\* a * b.
Times[a \in Float, b \in Float] ==
  IF a.c = "NaN" \/ b.c = "NaN" THEN NaN
  ELSE IF a.c = "Infinity" \/ b.c = "Infinity"
    THEN (IF IsZero(a) \/ IsZero(b) THEN NaN ELSE Infinity((a.s + b.s) % 2))
  ELSE Round[(a.s + b.s) % 2, BigMul[a.m, b.m], a.e + b.e, FALSE]

\* a / b: the quotient of a.m * 2^k by b.m has 55 binary digits or more.
Over[a \in Float, b \in Float] ==
  LET k == IF BitLength[b.m] + 55 > BitLength[a.m]
           THEN BitLength[b.m] + 55 - BitLength[a.m] ELSE 0
      Quotient[qr \in Pair] ==
        Round[(a.s + b.s) % 2, qr[1], a.e - b.e - k, qr[2] # <<>>]
  IN  IF a.c = "NaN" \/ b.c = "NaN" THEN NaN
      ELSE IF a.c = "Infinity"
        THEN (IF b.c = "Infinity" THEN NaN ELSE Infinity((a.s + b.s) % 2))
      ELSE IF b.c = "Infinity" THEN Zero((a.s + b.s) % 2)
      ELSE IF IsZero(b)
        THEN (IF IsZero(a) THEN NaN ELSE Infinity((a.s + b.s) % 2))
      ELSE IF IsZero(a) THEN Zero((a.s + b.s) % 2)
      ELSE Quotient[BigDiv[Shl[a.m, k], b.m]]

\* a > b.
Greater[a \in Float, b \in Float] ==
  LET Positive[d \in Float] == d.c # "NaN" /\ ~IsZero(d) /\ d.s = 0
  IN  a.c # "NaN" /\ b.c # "NaN" /\ Positive[Minus[a, b]]

Math_abs[a \in Float] == IF a.c = "NaN" THEN a ELSE [a EXCEPT !.s = 0]

\* The root of n = a.m * 2^k, for k that makes n 110 binary digits or 111
\* and a.e - k even; r is the root of n, rounded down.
Math_sqrt[a \in Float] ==
  LET k0 == 110 - BitLength[a.m]
      k  == IF (a.e - k0) % 2 = 0 THEN k0 ELSE k0 + 1
      Rooted[n \in Natural, r \in Natural] ==
        Round[0, r, (a.e - k) \div 2, BigMul[r, r] # n]
      Of[n \in Natural] == Rooted[n, Isqrt[n]]
  IN  IF a.c = "NaN" THEN NaN
      ELSE IF IsZero(a) THEN a
      ELSE IF a.s = 1 THEN NaN
      ELSE IF a.c = "Infinity" THEN a
      ELSE Of[Shl[a.m, k]]

\* The number the decimal literal n / d denotes.
Decimal(n, d) == Over[Number(n), Number(d)]

(***************************************************************************)
(* ROS3D.Viewer: render loop, camera modes and follow camera.              *)
(*                                                                         *)
(* A coordinate is a JavaScript number and a vector is the sequence of its *)
(* three coordinates.  Objects of the scene are identified by a positive   *)
(* number; 0 stands for undefined.                                         *)
(***************************************************************************)
\* THREE.Vector3.lerp(v, alpha) on p: this.x += (v.x - this.x) * alpha, for
\* each coordinate.
Vector3_lerp(p, v, alpha) ==
  [i \in 1..3 |-> Plus[p[i], Times[Minus[v[i], p[i]], alpha]]]

\* The alpha of the lerp in draw(), 0.2, and in setViewToFollow(), 1.0.
SmoothAlpha  == Decimal(2, 10)
InstantAlpha == Number(1)

\* camera.lookAt(target): the camera is turned along target - position.
lookAt(position, target) ==
  [i \in 1..3 |-> Minus[target[i], position[i]]]

\* options.cameraPose: where the camera is placed by the constructor.
CameraPoses ==
  { <<Number(12), Number(12), Number(12)>>, <<Number(9), Number(-4), Number(0)>> }

\* x moved by k units in its last place.
Ulps(x, k) == IF k = 0 THEN x ELSE Plus[x, [Number(k) EXCEPT !.e = @ + x.e]]

\* The objects of the scene that carry the followed names: position of the
\* entity, and world position of its view anchor (matrixWorld).  The
\* anchors are a few units in the last place from the camera pose
\* (12, 12, 12): the end of an approach.
ObjectIds == 1..MaxObjects
ObjectPositions ==
  [id \in ObjectIds |-> <<Number(7 * (id - 1)), Number(3 * (id - 1)), Number(0)>>]
ViewPositions ==
  [id \in ObjectIds |->
     IF id % 2 = 1
     THEN <<Ulps(Number(12), 3 + 2 * id), Number(12), Ulps(Number(12), 0 - (2 * id + 1))>>
     ELSE <<Ulps(Number(12), 0 - (3 + 2 * id)), Number(12), Ulps(Number(12), 2 * id + 1)>>]
ObjectPosition(id) == ObjectPositions[id]
ViewPosition(id) == ViewPositions[id]

\* JavaScript truthiness of a value, and a || b.
Truthy(a) == ~Falsy(a)
Or(a, b) == IF Truthy(a) THEN a ELSE b

\* options.followCamera: left out, true, false, 0 or 1.
FollowCameraOptions == {"undefined", "true", "false", "0", "1"}

\* options.width and options.height, as <<width, height>>.  Left out, they
\* are undefined, which a division converts to NaN.
ViewerSizes ==
  { <<NaN, NaN>>, <<Number(800), Number(600)>>, <<Number(600), Number(800)>> }

\* width / height, for each of them.
Aspect == [size \in ViewerSizes |-> Over[size[1], size[2]]]

\* The options of the constructor that the model follows.
ViewerOptions ==
  [cameraPose : CameraPoses, followCamera : FollowCameraOptions, size : ViewerSizes]

\* The options that place the camera at the end of an approach.
ApproachOptions ==
  { options \in ViewerOptions :
      options.cameraPose = <<Number(12), Number(12), Number(12)>> }

\* The viewer before start(): fields set by the constructor.  The scene
\* holds no object named followObjectName or followObjectName + '_view'.
\* this.followCamera is read for its truthiness only: the field followCamera
\* is TRUE when the value is truthy.
Viewer_new(options) ==
  [stopped            |-> TRUE,
   animationRequestId |-> 0,
   followCamera       |-> Truthy(Or(options.followCamera, "true")),
   followObject       |-> 0,
   followObjectView   |-> 0,
   zoomObject         |-> 0,
   position           |-> options.cameraPose,
   aspect             |-> Aspect[options.size],
   orientation        |-> <<Number(0), Number(0), Number(0)>>,
   lastPosition       |-> "lastPosition",
   center             |-> 0,
   sceneObject        |-> 0,
   sceneView          |-> 0,
   timeouts           |-> 0,
   frames             |-> {}]

\* The viewer and the calls a method makes, in order.
ViewerWorld == [v |-> viewer, trace |-> <<>>]

\* The camera is put at pos and turned to target.
Camera_set(w, pos, target) ==
  [w EXCEPT !.v.position = pos, !.v.orientation = lookAt(pos, target)]

\* The end of draw(): renderer.render and the setTimeout of the next
\* requestAnimationFrame.
Viewer_render(w) == [emit(w, "renderer.render") EXCEPT !.v.timeouts = @ + 1]

\* Mutant: draw() updating the camera controls in either mode.
Viewer_draw_alwaysUpdates(w) ==
  IF w.v.stopped THEN w
  ELSE
    Viewer_render(
      IF ~w.v.followCamera
      THEN emit(w, "cameraControls.update")
      ELSE
        LET fo == IF w.v.followObject = 0
                  THEN w.v.sceneObject ELSE w.v.followObject
            fv == IF w.v.followObjectView = 0
                  THEN w.v.sceneView ELSE w.v.followObjectView
            w0 == emit([w EXCEPT !.v.followObject = fo, !.v.followObjectView = fv],
                       "cameraControls.update")
        IN  IF fo # 0 /\ fv # 0
            THEN emit(Camera_set(w0,
                                 Vector3_lerp(w0.v.position, ViewPosition(fv), SmoothAlpha),
                                 ObjectPosition(fo)),
                      "lerp")
            ELSE w0)

\* draw(): nothing when stopped; else controls or follow camera, render,
\* and setTimeout of the next requestAnimationFrame.
Viewer_draw(w) ==
  IF w.v.stopped THEN w
  ELSE
    Viewer_render(
      IF ~w.v.followCamera
      THEN emit(w, "cameraControls.update")
      ELSE
        LET fo == IF w.v.followObject = 0
                  THEN w.v.sceneObject ELSE w.v.followObject
            fv == IF w.v.followObjectView = 0
                  THEN w.v.sceneView ELSE w.v.followObjectView
            w0 == [w EXCEPT !.v.followObject = fo, !.v.followObjectView = fv]
        IN  IF fo # 0 /\ fv # 0
            THEN emit(Camera_set(w0,
                                 Vector3_lerp(w0.v.position, ViewPosition(fv), SmoothAlpha),
                                 ObjectPosition(fo)),
                      "lerp")
            ELSE w0)

Viewer_start(w) == Viewer_draw([w EXCEPT !.v.stopped = FALSE])

\* stop(): cancelAnimationFrame(this.animationRequestId) unless stopped.
Viewer_stop(w) ==
  [w EXCEPT !.v.frames  = IF w.v.stopped THEN @ ELSE @ \ {w.v.animationRequestId},
            !.v.stopped = TRUE]

\* The setTimeout callback: that.animationRequestId = requestAnimationFrame(draw).
\* The handle returned is one no pending request and no field holds.
Viewer_onTimeout(w) ==
  LET used == w.v.frames \cup {w.v.animationRequestId}
      id   == CHOOSE i \in 1..(Cardinality(used) + 1) : i \notin used
  IN  [emit(w, "requestAnimationFrame") EXCEPT
         !.v.timeouts = @ - 1,
         !.v.frames = @ \cup {id},
         !.v.animationRequestId = id]

\* The animation-frame callback of request id: draw().
Viewer_onFrame(w, id) ==
  Viewer_draw([emit(w, "draw") EXCEPT !.v.frames = @ \ {id}])

Viewer_enableFollowCamera(w) == [w EXCEPT !.v.followCamera = TRUE]

\* Mutant: disableFollowCamera() seeding lastPosition but not center.
Viewer_disableFollowCamera_noCenter(w) ==
  LET w1 == IF w.v.followObject # 0 /\ w.v.followObjectView # 0 /\ w.v.followCamera
            THEN emit([w EXCEPT !.v.lastPosition = "camera.position"],
                      "cameraControls.lastPosition")
            ELSE w
  IN  [w1 EXCEPT !.v.followCamera = FALSE]

\* disableFollowCamera(): lastPosition and center are assigned the camera's
\* position vector and the followed object's position vector themselves.
Viewer_disableFollowCamera(w) ==
  LET w1 == IF w.v.followObject # 0 /\ w.v.followObjectView # 0 /\ w.v.followCamera
            THEN emit(emit([w EXCEPT !.v.lastPosition = "camera.position",
                                     !.v.center = w.v.followObject],
                           "cameraControls.lastPosition"),
                      "cameraControls.center")
            ELSE w
  IN  [w1 EXCEPT !.v.followCamera = FALSE]

\* setViewToFollow(): the camera is placed on the view anchor at once.
Viewer_setViewToFollow(w) ==
  LET fo == IF w.v.followObject = 0 THEN w.v.sceneObject ELSE w.v.followObject
      fv == IF w.v.followObjectView = 0 THEN w.v.sceneView ELSE w.v.followObjectView
      w0 == [w EXCEPT !.v.followObject = fo, !.v.followObjectView = fv]
  IN  IF fo # 0 /\ fv # 0
      THEN emit(Camera_set(w0,
                           Vector3_lerp(w0.v.position, ViewPosition(fv), InstantAlpha),
                           ObjectPosition(fo)),
                "lerp")
      ELSE w0

\* The camera position of the view 'ALL'.
AllPosition == <<Number(15000), Number(4000), Number(2000)>>

\* THREE.Box3().setFromObject(object): the box is centred on the object's
\* position; getSize() gives its extent along each axis.
Box3_getCenter(id) == ObjectPosition(id)
Box3_getSize(id) == <<Number(4 * id), Number(2 * id), Number(4 * id)>>

\* Vector3.length(): Math.sqrt(x * x + y * y + z * z).
Vector3_length(v) ==
  Math_sqrt[Plus[Plus[Times[v[1], v[1]], Times[v[2], v[2]]], Times[v[3], v[3]]]]

\* a.distanceTo(b): the length of a - b.
Vector3_distanceTo(a, b) == Vector3_length([i \in 1..3 |-> Minus[a[i], b[i]]])

\* Math.tan(camera.fov / 2): camera.fov is 40, and Math.tan(20) is
\* 2.237160944224742, which is 0x11e5b4a31aab84 * 2^-51.
TanHalfFov == Finite(0, <<11140, 17973, 5842, 143>>, -51)

\* offset || 1.5.
DefaultOffset == Decimal(15, 10)
OffsetOr(offset) ==
  IF IsZero(offset) \/ offset.c = "NaN" THEN DefaultOffset ELSE offset

\* endDistance: camera.aspect > 1 ? fit : fit / camera.aspect, for fit the
\* distance ((size.y / 2) + offset) / Math.abs(Math.tan(camera.fov / 2)).
EndDistance(fit, aspect) ==
  IF Greater[aspect, Number(1)] THEN fit ELSE Over[fit, aspect]

\* camera.position.set(x * endDistance / startDistance, ...) and
\* camera.lookAt(center).
Camera_scale(w, endDistance, startDistance, center) ==
  Camera_set(w,
             [i \in 1..3 |-> Over[Times[w.v.position[i], endDistance], startDistance]],
             center)

\* fitCameraToObject(camera, object, offset): offset = offset || 1.5; the
\* camera is put at position * endDistance / startDistance and turned to
\* the centre of the box.
Viewer_fitCameraToObject(w, object, offset) ==
  Camera_scale(w,
               EndDistance(Over[Plus[Over[Box3_getSize(object)[2], Number(2)],
                                     OffsetOr(offset)],
                                Math_abs[TanHalfFov]],
                           w.v.aspect),
               Vector3_distanceTo(Box3_getCenter(object), w.v.position),
               Box3_getCenter(object))

\* The names of the preset views, and one that is not a preset.
ViewNames == {"TOP", "ALL", "FRONT"}

\* The camera position of the view 'TOP': the centre of the box moved by
\* size / 2.0, size / 2.0 and size / 5.0.
TopPosition(center, size) ==
  <<Plus[center[1], Over[size, Number(2)]],
    Plus[center[2], Over[size, Number(2)]],
    Plus[center[3], Over[size, Number(5)]]>>

\* The switch of setViewByName(name), with the camera on the centre of the
\* box of the zoom object zo, whose diagonal is size.
Viewer_switchView(w, zo, name, size) ==
  CASE name = "TOP" ->
         Viewer_fitCameraToObject(
           emit(Camera_set(w, TopPosition(Box3_getCenter(zo), size), Box3_getCenter(zo)),
                "fitCameraToObject"),
           zo, Number(5))
    [] name = "ALL" ->
         Viewer_fitCameraToObject(
           emit(Camera_set(w, AllPosition, Box3_getCenter(zo)), "fitCameraToObject"),
           zo, Number(3))
    [] OTHER -> w

\* setViewByName(name): zoomObjectName is followObjectName unless
\* options.zoomObject is given.  The camera is put on the centre of the
\* zoom object's box before the name is looked at.
Viewer_setViewByName(w, name) ==
  LET zo == IF w.v.zoomObject = 0 THEN w.v.sceneObject ELSE w.v.zoomObject
      w0 == [w EXCEPT !.v.zoomObject = zo]
  IN  IF zo = 0 THEN w0
      ELSE Viewer_switchView(
             emit([w0 EXCEPT !.v.position = Box3_getCenter(zo)], "camera.position.copy"),
             zo, name, Vector3_length(Box3_getSize(zo)))

\* A method of the viewer, a callback of its loop or a change of its scene
\* runs to completion.
ViewerCommitCall(w, op, msg) ==
  /\ kind = "Viewer"
  /\ last.op = "idle"
  /\ viewer' = w.v
  /\ last' = [op |-> op, msg |-> msg, name |-> <<>>, trace |-> w.trace]
  /\ UNCHANGED <<kind, nodes, markers, order, rootObject, hiddenTypes, lifetime,
                 updatedTime, timers, now, rosTopic, urdf>>

ViewerCommit(w, op) == ViewerCommitCall(w, op, <<>>)

\* Ticks of the render loop outstanding: timeouts and animation-frame requests.
Pending(v) == v.timeouts + Cardinality(v.frames)

start ==
  /\ kind = "Viewer"
  /\ Pending(viewer) < MaxPending
  /\ ViewerCommit(Viewer_start(ViewerWorld), "start")

stop ==
  /\ kind = "Viewer"
  /\ ViewerCommit(Viewer_stop(ViewerWorld), "stop")

onTimeout ==
  /\ kind = "Viewer"
  /\ viewer.timeouts > 0
  /\ ViewerCommit(Viewer_onTimeout(ViewerWorld), "timeout")

onFrame ==
  /\ kind = "Viewer"
  /\ \E id \in viewer.frames : ViewerCommit(Viewer_onFrame(ViewerWorld, id), "frame")

enableFollowCamera ==
  /\ kind = "Viewer"
  /\ ViewerCommit(Viewer_enableFollowCamera(ViewerWorld), "enableFollowCamera")

disableFollowCamera ==
  /\ kind = "Viewer"
  /\ ViewerCommit(Viewer_disableFollowCamera(ViewerWorld), "disableFollowCamera")

setViewToFollow ==
  /\ kind = "Viewer"
  /\ ViewerCommit(Viewer_setViewToFollow(ViewerWorld), "setViewToFollow")

\* setViewByName(name) runs to completion; the name is kept with the call.
setViewByName ==
  /\ kind = "Viewer"
  /\ \E name \in ViewNames :
       ViewerCommitCall(Viewer_setViewByName(ViewerWorld, name), "setViewByName",
                        <<[name |-> name]>>)

\* resize(width, height): camera.aspect = width / height.
resize ==
  /\ kind = "Viewer"
  /\ \E size \in ViewerSizes :
       ViewerCommit([ViewerWorld EXCEPT !.v.aspect = Aspect[size]], "resize")

\* The objects that a field of the viewer refers to.
Held(v) == {v.followObject, v.center, v.zoomObject}

\* An object named followObjectName is added to the scene: a new object,
\* which no field of the viewer refers to yet.
addObject ==
  /\ kind = "Viewer"
  /\ viewer.sceneObject = 0
  /\ \E id \in ObjectIds :
       /\ id \notin Held(viewer)
       /\ \A j \in ObjectIds : j < id => j \in Held(viewer)
       /\ ViewerCommit([ViewerWorld EXCEPT !.v.sceneObject = id], "addObject")

\* An object named followObjectName + '_view' is added to the scene.
addView ==
  /\ kind = "Viewer"
  /\ viewer.sceneView = 0
  /\ \E id \in ObjectIds :
       /\ id # viewer.followObjectView
       /\ \A j \in ObjectIds : j < id => j = viewer.followObjectView
       /\ ViewerCommit([ViewerWorld EXCEPT !.v.sceneView = id], "addView")

\* The object of that name is removed from the scene.
removeObject ==
  /\ kind = "Viewer"
  /\ viewer.sceneObject # 0
  /\ ViewerCommit([ViewerWorld EXCEPT !.v.sceneObject = 0], "removeObject")

removeView ==
  /\ kind = "Viewer"
  /\ viewer.sceneView # 0
  /\ ViewerCommit([ViewerWorld EXCEPT !.v.sceneView = 0], "removeView")

\* new ROS3D.Viewer(options): the constructor ends with this.start().  The
\* first state is the one the constructor returns in; it records the
\* options and the calls start() made.
Viewer_construct(options) ==
  Viewer_start([v |-> Viewer_new(options), trace |-> <<>>])

InitViewerAt(options, w) ==
  /\ kind = "Viewer"
  /\ hiddenTypes = {}
  /\ lifetime = 0
  /\ nodes = <<>>
  /\ markers = <<>>
  /\ order = <<>>
  /\ rootObject = {}
  /\ updatedTime = <<>>
  /\ timers = EmptyBag
  /\ now = 0
  /\ rosTopic = TRUE
  /\ viewer = w.v
  /\ last = [op |-> "new", msg |-> <<options>>, name |-> <<>>, trace |-> w.trace]
  /\ urdf = <<>>

InitViewerWith(options) == InitViewerAt(options, Viewer_construct(options))

\* The viewer at the end of an approach, and with any of the options.
InitViewer == \E options \in ApproachOptions : InitViewerWith(options)
InitPreset == \E options \in ViewerOptions : InitViewerWith(options)

NextViewer ==
  \/ start
  \/ stop
  \/ onTimeout
  \/ onFrame
  \/ enableFollowCamera
  \/ disableFollowCamera
  \/ setViewToFollow
  \/ addObject
  \/ addView
  \/ removeObject
  \/ removeView
  \/ resize
  \/ Return

SpecViewer == InitViewer /\ [][NextViewer]_vars

\* The preset views: the camera is placed by name while the render loop
\* runs and the zoom object comes and goes; the scene holds no view anchor.
NextPreset ==
  \/ setViewByName
  \/ setViewToFollow
  \/ disableFollowCamera
  \/ onTimeout
  \/ onFrame
  \/ addObject
  \/ removeObject
  \/ resize
  \/ Return

SpecPreset == InitPreset /\ [][NextPreset]_vars

(***************************************************************************)
(* ROS3D.Urdf: the constructor builds one child per loadable visual.       *)
(***************************************************************************)
\* A string the code takes apart by position is the sequence of its UTF-16
\* code units.  The characters from the space (32) to the tilde (126), the
\* quotation mark, the backslash and the backtick written by name:
Ascii ==
  <<" ", "!", "quote", "#", "$", "%", "&", "'", "(", ")", "*", "+", ",", "-", ".", "/",
    "0", "1", "2", "3", "4", "5", "6", "7", "8", "9", ":", ";", "<", "=", ">", "?",
    "@", "A", "B", "C", "D", "E", "F", "G", "H", "I", "J", "K", "L", "M", "N", "O",
    "P", "Q", "R", "S", "T", "U", "V", "W", "X", "Y", "Z", "[", "backslash", "]", "^", "_",
    "backtick", "a", "b", "c", "d", "e", "f", "g", "h", "i", "j", "k", "l", "m", "n", "o",
    "p", "q", "r", "s", "t", "u", "v", "w", "x", "y", "z", "{", "|", "}", "~">>

\* The code units of a string of such characters.
CodeUnits(s) ==
  [i \in 1..Len(s) |-> 31 + CHOOSE j \in 1..Len(Ascii) : Ascii[j] = s[i]]

\* The code points of a string: a high surrogate followed by a low one is
\* one code point, any other code unit is a code point of its own.
RECURSIVE CodePoints(_, _)
CodePoints(s, i) ==
  IF i > Len(s) THEN <<>>
  ELSE IF i < Len(s) /\ s[i] \in 55296..56319 /\ s[i + 1] \in 56320..57343
       THEN <<65536 + (s[i] - 55296) * 1024 + (s[i + 1] - 56320)>>
              \o CodePoints(s, i + 2)
       ELSE <<s[i]>> \o CodePoints(s, i + 1)

\* The code units of a code point.
Utf16(c) ==
  IF c < 65536 THEN <<c>>
  ELSE <<55296 + ((c - 65536) \div 1024), 56320 + ((c - 65536) % 1024)>>

\* The lower-case mappings of Unicode 17 (UnicodeData and SpecialCasing,
\* language-insensitive), as runs <<first, last, step, offset>>: the code
\* points first, first + step, ..., last lower to themselves plus offset.
LowerRuns ==
  <<<<65, 90, 1, 32>>, <<192, 214, 1, 32>>, <<216, 222, 1, 32>>,
     <<256, 302, 2, 1>>, <<306, 310, 2, 1>>, <<313, 327, 2, 1>>,
     <<330, 374, 2, 1>>, <<376, 376, 1, -121>>, <<377, 381, 2, 1>>,
     <<385, 385, 1, 210>>, <<386, 388, 2, 1>>, <<390, 390, 1, 206>>,
     <<391, 391, 1, 1>>, <<393, 394, 1, 205>>, <<395, 395, 1, 1>>,
     <<398, 398, 1, 79>>, <<399, 399, 1, 202>>, <<400, 400, 1, 203>>,
     <<401, 401, 1, 1>>, <<403, 403, 1, 205>>, <<404, 404, 1, 207>>,
     <<406, 406, 1, 211>>, <<407, 407, 1, 209>>, <<408, 408, 1, 1>>,
     <<412, 412, 1, 211>>, <<413, 413, 1, 213>>, <<415, 415, 1, 214>>,
     <<416, 420, 2, 1>>, <<422, 422, 1, 218>>, <<423, 423, 1, 1>>,
     <<425, 425, 1, 218>>, <<428, 428, 1, 1>>, <<430, 430, 1, 218>>,
     <<431, 431, 1, 1>>, <<433, 434, 1, 217>>, <<435, 437, 2, 1>>,
     <<439, 439, 1, 219>>, <<440, 440, 1, 1>>, <<444, 444, 1, 1>>,
     <<452, 452, 1, 2>>, <<453, 453, 1, 1>>, <<455, 455, 1, 2>>,
     <<456, 456, 1, 1>>, <<458, 458, 1, 2>>, <<459, 475, 2, 1>>,
     <<478, 494, 2, 1>>, <<497, 497, 1, 2>>, <<498, 500, 2, 1>>,
     <<502, 502, 1, -97>>, <<503, 503, 1, -56>>, <<504, 542, 2, 1>>,
     <<544, 544, 1, -130>>, <<546, 562, 2, 1>>, <<570, 570, 1, 10795>>,
     <<571, 571, 1, 1>>, <<573, 573, 1, -163>>, <<574, 574, 1, 10792>>,
     <<577, 577, 1, 1>>, <<579, 579, 1, -195>>, <<580, 580, 1, 69>>,
     <<581, 581, 1, 71>>, <<582, 590, 2, 1>>, <<880, 882, 2, 1>>,
     <<886, 886, 1, 1>>, <<895, 895, 1, 116>>, <<902, 902, 1, 38>>,
     <<904, 906, 1, 37>>, <<908, 908, 1, 64>>, <<910, 911, 1, 63>>,
     <<913, 929, 1, 32>>, <<931, 939, 1, 32>>, <<975, 975, 1, 8>>,
     <<984, 1006, 2, 1>>, <<1012, 1012, 1, -60>>, <<1015, 1015, 1, 1>>,
     <<1017, 1017, 1, -7>>, <<1018, 1018, 1, 1>>, <<1021, 1023, 1, -130>>,
     <<1024, 1039, 1, 80>>, <<1040, 1071, 1, 32>>, <<1120, 1152, 2, 1>>,
     <<1162, 1214, 2, 1>>, <<1216, 1216, 1, 15>>, <<1217, 1229, 2, 1>>,
     <<1232, 1326, 2, 1>>, <<1329, 1366, 1, 48>>, <<4256, 4293, 1, 7264>>,
     <<4295, 4295, 1, 7264>>, <<4301, 4301, 1, 7264>>,
     <<5024, 5103, 1, 38864>>, <<5104, 5109, 1, 8>>, <<7305, 7305, 1, 1>>,
     <<7312, 7354, 1, -3008>>, <<7357, 7359, 1, -3008>>, <<7680, 7828, 2, 1>>,
     <<7838, 7838, 1, -7615>>, <<7840, 7934, 2, 1>>, <<7944, 7951, 1, -8>>,
     <<7960, 7965, 1, -8>>, <<7976, 7983, 1, -8>>, <<7992, 7999, 1, -8>>,
     <<8008, 8013, 1, -8>>, <<8025, 8031, 2, -8>>, <<8040, 8047, 1, -8>>,
     <<8072, 8079, 1, -8>>, <<8088, 8095, 1, -8>>, <<8104, 8111, 1, -8>>,
     <<8120, 8121, 1, -8>>, <<8122, 8123, 1, -74>>, <<8124, 8124, 1, -9>>,
     <<8136, 8139, 1, -86>>, <<8140, 8140, 1, -9>>, <<8152, 8153, 1, -8>>,
     <<8154, 8155, 1, -100>>, <<8168, 8169, 1, -8>>, <<8170, 8171, 1, -112>>,
     <<8172, 8172, 1, -7>>, <<8184, 8185, 1, -128>>, <<8186, 8187, 1, -126>>,
     <<8188, 8188, 1, -9>>, <<8486, 8486, 1, -7517>>, <<8490, 8490, 1, -8383>>,
     <<8491, 8491, 1, -8262>>, <<8498, 8498, 1, 28>>, <<8544, 8559, 1, 16>>,
     <<8579, 8579, 1, 1>>, <<9398, 9423, 1, 26>>, <<11264, 11311, 1, 48>>,
     <<11360, 11360, 1, 1>>, <<11362, 11362, 1, -10743>>,
     <<11363, 11363, 1, -3814>>, <<11364, 11364, 1, -10727>>,
     <<11367, 11371, 2, 1>>, <<11373, 11373, 1, -10780>>,
     <<11374, 11374, 1, -10749>>, <<11375, 11375, 1, -10783>>,
     <<11376, 11376, 1, -10782>>, <<11378, 11378, 1, 1>>,
     <<11381, 11381, 1, 1>>, <<11390, 11391, 1, -10815>>,
     <<11392, 11490, 2, 1>>, <<11499, 11501, 2, 1>>, <<11506, 11506, 1, 1>>,
     <<42560, 42604, 2, 1>>, <<42624, 42650, 2, 1>>, <<42786, 42798, 2, 1>>,
     <<42802, 42862, 2, 1>>, <<42873, 42875, 2, 1>>,
     <<42877, 42877, 1, -35332>>, <<42878, 42886, 2, 1>>,
     <<42891, 42891, 1, 1>>, <<42893, 42893, 1, -42280>>,
     <<42896, 42898, 2, 1>>, <<42902, 42920, 2, 1>>,
     <<42922, 42922, 1, -42308>>, <<42923, 42923, 1, -42319>>,
     <<42924, 42924, 1, -42315>>, <<42925, 42925, 1, -42305>>,
     <<42926, 42926, 1, -42308>>, <<42928, 42928, 1, -42258>>,
     <<42929, 42929, 1, -42282>>, <<42930, 42930, 1, -42261>>,
     <<42931, 42931, 1, 928>>, <<42932, 42946, 2, 1>>,
     <<42948, 42948, 1, -48>>, <<42949, 42949, 1, -42307>>,
     <<42950, 42950, 1, -35384>>, <<42951, 42953, 2, 1>>,
     <<42955, 42955, 1, -42343>>, <<42956, 42970, 2, 1>>,
     <<42972, 42972, 1, -42561>>, <<42997, 42997, 1, 1>>,
     <<65313, 65338, 1, 32>>, <<66560, 66599, 1, 40>>, <<66736, 66771, 1, 40>>,
     <<66928, 66938, 1, 39>>, <<66940, 66954, 1, 39>>, <<66956, 66962, 1, 39>>,
     <<66964, 66965, 1, 39>>, <<68736, 68786, 1, 64>>, <<68944, 68965, 1, 32>>,
     <<71840, 71871, 1, 32>>, <<93760, 93791, 1, 32>>, <<93856, 93880, 1, 27>>,
     <<125184, 125217, 1, 34>>>>

\* The cased code points that are not case-ignorable, as runs <<first, last>>.
CasedRuns ==
  <<<<65, 90>>, <<97, 122>>, <<170, 170>>, <<181, 181>>, <<186, 186>>,
     <<192, 214>>, <<216, 246>>, <<248, 442>>, <<444, 447>>, <<452, 659>>,
     <<662, 687>>, <<880, 883>>, <<886, 887>>, <<891, 893>>, <<895, 895>>,
     <<902, 902>>, <<904, 906>>, <<908, 908>>, <<910, 929>>, <<931, 1013>>,
     <<1015, 1153>>, <<1162, 1327>>, <<1329, 1366>>, <<1376, 1416>>,
     <<4256, 4293>>, <<4295, 4295>>, <<4301, 4301>>, <<4304, 4346>>,
     <<4349, 4351>>, <<5024, 5109>>, <<5112, 5117>>, <<7296, 7306>>,
     <<7312, 7354>>, <<7357, 7359>>, <<7424, 7467>>, <<7531, 7543>>,
     <<7545, 7578>>, <<7680, 7957>>, <<7960, 7965>>, <<7968, 8005>>,
     <<8008, 8013>>, <<8016, 8023>>, <<8025, 8025>>, <<8027, 8027>>,
     <<8029, 8029>>, <<8031, 8061>>, <<8064, 8116>>, <<8118, 8124>>,
     <<8126, 8126>>, <<8130, 8132>>, <<8134, 8140>>, <<8144, 8147>>,
     <<8150, 8155>>, <<8160, 8172>>, <<8178, 8180>>, <<8182, 8188>>,
     <<8450, 8450>>, <<8455, 8455>>, <<8458, 8467>>, <<8469, 8469>>,
     <<8473, 8477>>, <<8484, 8484>>, <<8486, 8486>>, <<8488, 8488>>,
     <<8490, 8493>>, <<8495, 8500>>, <<8505, 8505>>, <<8508, 8511>>,
     <<8517, 8521>>, <<8526, 8526>>, <<8544, 8575>>, <<8579, 8580>>,
     <<9398, 9449>>, <<11264, 11387>>, <<11390, 11492>>, <<11499, 11502>>,
     <<11506, 11507>>, <<11520, 11557>>, <<11559, 11559>>, <<11565, 11565>>,
     <<42560, 42605>>, <<42624, 42651>>, <<42786, 42863>>, <<42865, 42887>>,
     <<42891, 42894>>, <<42896, 42972>>, <<42997, 42998>>, <<43002, 43002>>,
     <<43824, 43866>>, <<43872, 43880>>, <<43888, 43967>>, <<64256, 64262>>,
     <<64275, 64279>>, <<65313, 65338>>, <<65345, 65370>>, <<66560, 66639>>,
     <<66736, 66771>>, <<66776, 66811>>, <<66928, 66938>>, <<66940, 66954>>,
     <<66956, 66962>>, <<66964, 66965>>, <<66967, 66977>>, <<66979, 66993>>,
     <<66995, 67001>>, <<67003, 67004>>, <<68736, 68786>>, <<68800, 68850>>,
     <<68944, 68965>>, <<68976, 68997>>, <<71840, 71903>>, <<93760, 93823>>,
     <<93856, 93880>>, <<93883, 93907>>, <<119808, 119892>>,
     <<119894, 119964>>, <<119966, 119967>>, <<119970, 119970>>,
     <<119973, 119974>>, <<119977, 119980>>, <<119982, 119993>>,
     <<119995, 119995>>, <<119997, 120003>>, <<120005, 120069>>,
     <<120071, 120074>>, <<120077, 120084>>, <<120086, 120092>>,
     <<120094, 120121>>, <<120123, 120126>>, <<120128, 120132>>,
     <<120134, 120134>>, <<120138, 120144>>, <<120146, 120485>>,
     <<120488, 120512>>, <<120514, 120538>>, <<120540, 120570>>,
     <<120572, 120596>>, <<120598, 120628>>, <<120630, 120654>>,
     <<120656, 120686>>, <<120688, 120712>>, <<120714, 120744>>,
     <<120746, 120770>>, <<120772, 120779>>, <<122624, 122633>>,
     <<122635, 122654>>, <<122661, 122666>>, <<125184, 125251>>,
     <<127280, 127305>>, <<127312, 127337>>, <<127344, 127369>>>>

\* The case-ignorable code points, as runs <<first, last>>.
IgnorableRuns ==
  <<<<39, 39>>, <<46, 46>>, <<58, 58>>, <<94, 94>>, <<96, 96>>, <<168, 168>>,
     <<173, 173>>, <<175, 175>>, <<180, 180>>, <<183, 184>>, <<688, 879>>,
     <<884, 885>>, <<890, 890>>, <<900, 901>>, <<903, 903>>, <<1155, 1161>>,
     <<1369, 1369>>, <<1375, 1375>>, <<1425, 1469>>, <<1471, 1471>>,
     <<1473, 1474>>, <<1476, 1477>>, <<1479, 1479>>, <<1524, 1524>>,
     <<1536, 1541>>, <<1552, 1562>>, <<1564, 1564>>, <<1600, 1600>>,
     <<1611, 1631>>, <<1648, 1648>>, <<1750, 1757>>, <<1759, 1768>>,
     <<1770, 1773>>, <<1807, 1807>>, <<1809, 1809>>, <<1840, 1866>>,
     <<1958, 1968>>, <<2027, 2037>>, <<2042, 2042>>, <<2045, 2045>>,
     <<2070, 2093>>, <<2137, 2139>>, <<2184, 2184>>, <<2192, 2193>>,
     <<2199, 2207>>, <<2249, 2306>>, <<2362, 2362>>, <<2364, 2364>>,
     <<2369, 2376>>, <<2381, 2381>>, <<2385, 2391>>, <<2402, 2403>>,
     <<2417, 2417>>, <<2433, 2433>>, <<2492, 2492>>, <<2497, 2500>>,
     <<2509, 2509>>, <<2530, 2531>>, <<2558, 2558>>, <<2561, 2562>>,
     <<2620, 2620>>, <<2625, 2626>>, <<2631, 2632>>, <<2635, 2637>>,
     <<2641, 2641>>, <<2672, 2673>>, <<2677, 2677>>, <<2689, 2690>>,
     <<2748, 2748>>, <<2753, 2757>>, <<2759, 2760>>, <<2765, 2765>>,
     <<2786, 2787>>, <<2810, 2815>>, <<2817, 2817>>, <<2876, 2876>>,
     <<2879, 2879>>, <<2881, 2884>>, <<2893, 2893>>, <<2901, 2902>>,
     <<2914, 2915>>, <<2946, 2946>>, <<3008, 3008>>, <<3021, 3021>>,
     <<3072, 3072>>, <<3076, 3076>>, <<3132, 3132>>, <<3134, 3136>>,
     <<3142, 3144>>, <<3146, 3149>>, <<3157, 3158>>, <<3170, 3171>>,
     <<3201, 3201>>, <<3260, 3260>>, <<3263, 3263>>, <<3270, 3270>>,
     <<3276, 3277>>, <<3298, 3299>>, <<3328, 3329>>, <<3387, 3388>>,
     <<3393, 3396>>, <<3405, 3405>>, <<3426, 3427>>, <<3457, 3457>>,
     <<3530, 3530>>, <<3538, 3540>>, <<3542, 3542>>, <<3633, 3633>>,
     <<3636, 3642>>, <<3654, 3662>>, <<3761, 3761>>, <<3764, 3772>>,
     <<3782, 3782>>, <<3784, 3790>>, <<3864, 3865>>, <<3893, 3893>>,
     <<3895, 3895>>, <<3897, 3897>>, <<3953, 3966>>, <<3968, 3972>>,
     <<3974, 3975>>, <<3981, 3991>>, <<3993, 4028>>, <<4038, 4038>>,
     <<4141, 4144>>, <<4146, 4151>>, <<4153, 4154>>, <<4157, 4158>>,
     <<4184, 4185>>, <<4190, 4192>>, <<4209, 4212>>, <<4226, 4226>>,
     <<4229, 4230>>, <<4237, 4237>>, <<4253, 4253>>, <<4348, 4348>>,
     <<4957, 4959>>, <<5906, 5908>>, <<5938, 5939>>, <<5970, 5971>>,
     <<6002, 6003>>, <<6068, 6069>>, <<6071, 6077>>, <<6086, 6086>>,
     <<6089, 6099>>, <<6103, 6103>>, <<6109, 6109>>, <<6155, 6159>>,
     <<6211, 6211>>, <<6277, 6278>>, <<6313, 6313>>, <<6432, 6434>>,
     <<6439, 6440>>, <<6450, 6450>>, <<6457, 6459>>, <<6679, 6680>>,
     <<6683, 6683>>, <<6742, 6742>>, <<6744, 6750>>, <<6752, 6752>>,
     <<6754, 6754>>, <<6757, 6764>>, <<6771, 6780>>, <<6783, 6783>>,
     <<6823, 6823>>, <<6832, 6877>>, <<6880, 6891>>, <<6912, 6915>>,
     <<6964, 6964>>, <<6966, 6970>>, <<6972, 6972>>, <<6978, 6978>>,
     <<7019, 7027>>, <<7040, 7041>>, <<7074, 7077>>, <<7080, 7081>>,
     <<7083, 7085>>, <<7142, 7142>>, <<7144, 7145>>, <<7149, 7149>>,
     <<7151, 7153>>, <<7212, 7219>>, <<7222, 7223>>, <<7288, 7293>>,
     <<7376, 7378>>, <<7380, 7392>>, <<7394, 7400>>, <<7405, 7405>>,
     <<7412, 7412>>, <<7416, 7417>>, <<7468, 7530>>, <<7544, 7544>>,
     <<7579, 7679>>, <<8125, 8125>>, <<8127, 8129>>, <<8141, 8143>>,
     <<8157, 8159>>, <<8173, 8175>>, <<8189, 8190>>, <<8203, 8207>>,
     <<8216, 8217>>, <<8228, 8228>>, <<8231, 8231>>, <<8234, 8238>>,
     <<8288, 8292>>, <<8294, 8303>>, <<8305, 8305>>, <<8319, 8319>>,
     <<8336, 8348>>, <<8400, 8432>>, <<11388, 11389>>, <<11503, 11505>>,
     <<11631, 11631>>, <<11647, 11647>>, <<11744, 11775>>, <<11823, 11823>>,
     <<12293, 12293>>, <<12330, 12333>>, <<12337, 12341>>, <<12347, 12347>>,
     <<12441, 12446>>, <<12540, 12542>>, <<40981, 40981>>, <<42232, 42237>>,
     <<42508, 42508>>, <<42607, 42610>>, <<42612, 42621>>, <<42623, 42623>>,
     <<42652, 42655>>, <<42736, 42737>>, <<42752, 42785>>, <<42864, 42864>>,
     <<42888, 42890>>, <<42993, 42996>>, <<43000, 43001>>, <<43010, 43010>>,
     <<43014, 43014>>, <<43019, 43019>>, <<43045, 43046>>, <<43052, 43052>>,
     <<43204, 43205>>, <<43232, 43249>>, <<43263, 43263>>, <<43302, 43309>>,
     <<43335, 43345>>, <<43392, 43394>>, <<43443, 43443>>, <<43446, 43449>>,
     <<43452, 43453>>, <<43471, 43471>>, <<43493, 43494>>, <<43561, 43566>>,
     <<43569, 43570>>, <<43573, 43574>>, <<43587, 43587>>, <<43596, 43596>>,
     <<43632, 43632>>, <<43644, 43644>>, <<43696, 43696>>, <<43698, 43700>>,
     <<43703, 43704>>, <<43710, 43711>>, <<43713, 43713>>, <<43741, 43741>>,
     <<43756, 43757>>, <<43763, 43764>>, <<43766, 43766>>, <<43867, 43871>>,
     <<43881, 43883>>, <<44005, 44005>>, <<44008, 44008>>, <<44013, 44013>>,
     <<64286, 64286>>, <<64434, 64450>>, <<65024, 65039>>, <<65043, 65043>>,
     <<65056, 65071>>, <<65106, 65106>>, <<65109, 65109>>, <<65279, 65279>>,
     <<65287, 65287>>, <<65294, 65294>>, <<65306, 65306>>, <<65342, 65342>>,
     <<65344, 65344>>, <<65392, 65392>>, <<65438, 65439>>, <<65507, 65507>>,
     <<65529, 65531>>, <<66045, 66045>>, <<66272, 66272>>, <<66422, 66426>>,
     <<67456, 67461>>, <<67463, 67504>>, <<67506, 67514>>, <<68097, 68099>>,
     <<68101, 68102>>, <<68108, 68111>>, <<68152, 68154>>, <<68159, 68159>>,
     <<68325, 68326>>, <<68900, 68903>>, <<68942, 68942>>, <<68969, 68973>>,
     <<68975, 68975>>, <<69291, 69292>>, <<69317, 69317>>, <<69370, 69375>>,
     <<69446, 69456>>, <<69506, 69509>>, <<69633, 69633>>, <<69688, 69702>>,
     <<69744, 69744>>, <<69747, 69748>>, <<69759, 69761>>, <<69811, 69814>>,
     <<69817, 69818>>, <<69821, 69821>>, <<69826, 69826>>, <<69837, 69837>>,
     <<69888, 69890>>, <<69927, 69931>>, <<69933, 69940>>, <<70003, 70003>>,
     <<70016, 70017>>, <<70070, 70078>>, <<70089, 70092>>, <<70095, 70095>>,
     <<70191, 70193>>, <<70196, 70196>>, <<70198, 70199>>, <<70206, 70206>>,
     <<70209, 70209>>, <<70367, 70367>>, <<70371, 70378>>, <<70400, 70401>>,
     <<70459, 70460>>, <<70464, 70464>>, <<70502, 70508>>, <<70512, 70516>>,
     <<70587, 70592>>, <<70606, 70606>>, <<70608, 70608>>, <<70610, 70610>>,
     <<70625, 70626>>, <<70712, 70719>>, <<70722, 70724>>, <<70726, 70726>>,
     <<70750, 70750>>, <<70835, 70840>>, <<70842, 70842>>, <<70847, 70848>>,
     <<70850, 70851>>, <<71090, 71093>>, <<71100, 71101>>, <<71103, 71104>>,
     <<71132, 71133>>, <<71219, 71226>>, <<71229, 71229>>, <<71231, 71232>>,
     <<71339, 71339>>, <<71341, 71341>>, <<71344, 71349>>, <<71351, 71351>>,
     <<71453, 71453>>, <<71455, 71455>>, <<71458, 71461>>, <<71463, 71467>>,
     <<71727, 71735>>, <<71737, 71738>>, <<71995, 71996>>, <<71998, 71998>>,
     <<72003, 72003>>, <<72148, 72151>>, <<72154, 72155>>, <<72160, 72160>>,
     <<72193, 72202>>, <<72243, 72248>>, <<72251, 72254>>, <<72263, 72263>>,
     <<72273, 72278>>, <<72281, 72283>>, <<72330, 72342>>, <<72344, 72345>>,
     <<72544, 72544>>, <<72546, 72548>>, <<72550, 72550>>, <<72752, 72758>>,
     <<72760, 72765>>, <<72767, 72767>>, <<72850, 72871>>, <<72874, 72880>>,
     <<72882, 72883>>, <<72885, 72886>>, <<73009, 73014>>, <<73018, 73018>>,
     <<73020, 73021>>, <<73023, 73029>>, <<73031, 73031>>, <<73104, 73105>>,
     <<73109, 73109>>, <<73111, 73111>>, <<73177, 73177>>, <<73459, 73460>>,
     <<73472, 73473>>, <<73526, 73530>>, <<73536, 73536>>, <<73538, 73538>>,
     <<73562, 73562>>, <<78896, 78912>>, <<78919, 78933>>, <<90398, 90409>>,
     <<90413, 90415>>, <<92912, 92916>>, <<92976, 92982>>, <<92992, 92995>>,
     <<93504, 93506>>, <<93547, 93548>>, <<94031, 94031>>, <<94095, 94111>>,
     <<94176, 94177>>, <<94179, 94180>>, <<94194, 94195>>, <<110576, 110579>>,
     <<110581, 110587>>, <<110589, 110590>>, <<113821, 113822>>,
     <<113824, 113827>>, <<118528, 118573>>, <<118576, 118598>>,
     <<119143, 119145>>, <<119155, 119170>>, <<119173, 119179>>,
     <<119210, 119213>>, <<119362, 119364>>, <<121344, 121398>>,
     <<121403, 121452>>, <<121461, 121461>>, <<121476, 121476>>,
     <<121499, 121503>>, <<121505, 121519>>, <<122880, 122886>>,
     <<122888, 122904>>, <<122907, 122913>>, <<122915, 122916>>,
     <<122918, 122922>>, <<122928, 122989>>, <<123023, 123023>>,
     <<123184, 123197>>, <<123566, 123566>>, <<123628, 123631>>,
     <<124139, 124143>>, <<124398, 124399>>, <<124643, 124643>>,
     <<124646, 124646>>, <<124654, 124655>>, <<124661, 124661>>,
     <<124671, 124671>>, <<125136, 125142>>, <<125252, 125259>>,
     <<127995, 127999>>, <<917505, 917505>>, <<917536, 917631>>,
     <<917760, 917999>>>>

InRuns(runs, c) == \E r \in 1..Len(runs) : runs[r][1] <= c /\ c <= runs[r][2]

Cased(c) == InRuns(CasedRuns, c)
CaseIgnorable(c) == InRuns(IgnorableRuns, c)

\* The code point c lowered by the run table (c itself when in no run).
Lowered(c) ==
  LET at == { r \in 1..Len(LowerRuns) :
                /\ LowerRuns[r][1] <= c /\ c <= LowerRuns[r][2]
                /\ (c - LowerRuns[r][1]) % LowerRuns[r][3] = 0 }
  IN  IF at = {} THEN c ELSE c + LowerRuns[CHOOSE r \in at : TRUE][4]

\* Final_Sigma: the capital sigma (931) at position i of the code points p
\* follows a cased letter and then any number of case-ignorable characters,
\* and is not followed by case-ignorable characters and then a cased letter.
FinalSigma(p, i) ==
  /\ p[i] = 931
  /\ \E j \in 1..(i - 1) :
       Cased(p[j]) /\ \A k \in (j + 1)..(i - 1) : CaseIgnorable(p[k])
  /\ ~\E j \in (i + 1)..Len(p) :
       Cased(p[j]) /\ \A k \in (i + 1)..(j - 1) : CaseIgnorable(p[k])

\* The lower case of the code point at position i of p, in code units.  The
\* capital I with dot above (304) lowers to i and a combining dot above.
LowerAt(p, i) ==
  IF FinalSigma(p, i) THEN <<962>>
  ELSE IF p[i] = 304 THEN <<105, 775>>
  ELSE Utf16(Lowered(p[i]))

RECURSIVE LowerFrom(_, _)
LowerFrom(p, i) == IF i > Len(p) THEN <<>> ELSE LowerAt(p, i) \o LowerFrom(p, i + 1)

\* String.prototype.toLowerCase
toLowerCase(s) == LowerFrom(CodePoints(s, 1), 1)

\* String.prototype.indexOf, counting positions from 1 (0: not found).
indexOf(s, pattern) ==
  LET at == { i \in 1..(Len(s) - Len(pattern) + 1) :
                SubSeq(s, i, i + Len(pattern) - 1) = pattern }
  IN  IF at = {} THEN 0 ELSE CHOOSE i \in at : \A j \in at : i <= j

\* s.substr(-n): the last n characters, or all of s when it is shorter.
lastChars(s, n) == SubSeq(s, IF Len(s) > n THEN Len(s) - n + 1 ELSE 1, Len(s))

PackagePrefix == CodeUnits(<<"p", "a", "c", "k", "a", "g", "e", ":", "/", "/">>)

\* The uri of a mesh: its filename with everything up to 'package://' cut.
Urdf_uri(filename) ==
  LET tmpIndex == indexOf(filename, PackagePrefix)
  IN  IF tmpIndex # 0
      THEN SubSeq(filename, tmpIndex + Len(PackagePrefix), Len(filename))
      ELSE filename

\* var fileType = uri.substr(-3).toLowerCase()
Urdf_fileType(uri) == toLowerCase(lastChars(uri, 3))

\* ROS3D.MeshLoader.loaders: the file types with a registered loader.
MeshLoader_loaders ==
  { CodeUnits(<<"d", "a", "e">>), CodeUnits(<<"o", "b", "j">>),
    CodeUnits(<<"s", "t", "l">>) }

\* Visuals of a link.  `type` is the geometry's type, "none" for a visual
\* without geometry and "other" for a shape createShapeMesh does not know.
Visual(name, type, filename) == [name |-> name, type |-> type, filename |-> filename]

\* The mesh files: a collada file of a package, an STL file in upper case,
\* a glTF file, and two files whose last three characters are not their
\* extension, 'm.xstl' and 'mstl'.
Visuals ==
  { Visual(<<>>, "none", <<>>),
    Visual(<<"t">>, "mesh",
           PackagePrefix \o CodeUnits(<<"r", "/", "m", ".", "d", "a", "e">>)),
    Visual(<<>>, "mesh", CodeUnits(<<"m", ".", "S", "T", "L">>)),
    Visual(<<"t">>, "mesh", CodeUnits(<<"m", ".", "g", "l", "t", "f">>)),
    Visual(<<>>, "mesh", CodeUnits(<<"m", ".", "x", "s", "t", "l">>)),
    Visual(<<"t">>, "mesh", CodeUnits(<<"m", "s", "t", "l">>)),
    Visual(<<>>, "box", <<>>),
    Visual(<<"s">>, "other", <<>>) }

VisualLists == SeqsUpTo(Visuals, MaxVisuals)

\* urdfModel.links: one link, or two.
LinkNames == << <<"a">>, <<"b">> >>
UrdfModels ==
  { [l \in 1..n |-> [name |-> LinkNames[l], visuals |-> vs[l]]] :
      <<n, vs>> \in { <<m, ws>> \in (1..Len(LinkNames)) \X [1..Len(LinkNames) -> VisualLists] :
                        \A l \in (m + 1)..Len(LinkNames) : ws[l] = <<>> } }

\* createShapeMesh(visual, options): a mesh for a box, cylinder or sphere.
Urdf_createShapeMesh(visual) ==
  IF visual.type \in {"box", "cylinder", "sphere"}
  THEN << [kind |-> "shape", name |-> <<>>] >>
  ELSE <<>>

\* The body of the loop over link.visuals, for visual i of link l.  A child
\* is tagged with the visual it was made from.
Urdf_visual(u, l, i) ==
  LET link   == u.urdfModel[l]
      visual == link.visuals[i]
  IN  IF visual.type = "none" THEN u
      ELSE IF visual.type = "mesh" THEN
        LET uri      == Urdf_uri(visual.filename)
            fileType == Urdf_fileType(uri)
        IN  IF fileType \in MeshLoader_loaders
            THEN LET name == IF visual.name # <<>> THEN visual.name ELSE link.name
                     cameraView == [kind |-> "view", name |-> name \o <<"_", "v", "i", "e", "w">>]
                     sceneNode  == [name |-> name, frameID |-> <<"/">> \o link.name,
                                    from |-> <<l, i>>,
                                    children |-> << [kind |-> "mesh", name |-> <<>>],
                                                    cameraView >>]
                 IN  [u EXCEPT !.children = Append(@, sceneNode)]
            ELSE [u EXCEPT !.warnings = Append(@, [from |-> <<l, i>>, uri |-> uri])]
      ELSE
        LET scene == [name |-> visual.name, frameID |-> <<"/">> \o link.name,
                      from |-> <<l, i>>,
                      children |-> Urdf_createShapeMesh(visual)]
        IN  [u EXCEPT !.children = Append(@, scene)]

RECURSIVE Urdf_visuals(_, _, _)
Urdf_visuals(u, l, i) ==
  IF i > Len(u.urdfModel[l].visuals) THEN u
  ELSE Urdf_visuals(Urdf_visual(u, l, i), l, i + 1)

RECURSIVE Urdf_links(_, _)
Urdf_links(u, l) ==
  IF l > Len(u.urdfModel) THEN u
  ELSE Urdf_links(Urdf_visuals(u, l, 1), l + 1)

\* new ROS3D.Urdf({urdfModel, ...})
Urdf_new ==
  /\ kind = "Urdf"
  /\ ~urdf.constructed
  /\ urdf' = [Urdf_links(urdf, 1) EXCEPT !.constructed = TRUE]
  /\ UNCHANGED <<kind, nodes, markers, order, rootObject, hiddenTypes, lifetime,
                 updatedTime, timers, now, rosTopic, last, viewer>>

InitUrdf ==
  /\ kind = "Urdf"
  /\ hiddenTypes = {}
  /\ lifetime = 0
  /\ InitCommon
  /\ viewer = <<>>
  /\ \E urdfModel \in UrdfModels :
       urdf = [urdfModel |-> urdfModel, children |-> <<>>, warnings |-> <<>>,
               constructed |-> FALSE]

NextUrdf == Urdf_new

SpecUrdf == InitUrdf /\ [][NextUrdf]_vars

(***************************************************************************)
(* Registries fed with upserts and deletes of two (ns, id) pairs whose     *)
(* namespace and id digits read the same when joined: ("a", 11) and        *)
(* ("a1", 1).                                                              *)
(***************************************************************************)
KeyPairs == { <<<<"a">>, 11>>, <<<<"a", "1">>, 1>> }

KeyMessages ==
  { Msg(0, p, t, u) : p \in KeyPairs, t \in Types, u \in BOOLEAN }
    \cup { Msg(2, p, CUBE, FALSE) : p \in KeyPairs }

KeyArrayMessages == { [markers |-> s] : s \in SeqsUpTo(KeyMessages, MaxArrayLen) }

InitKeys ==
  \/ InitArray
  \/ InitClient /\ lifetime = 0

NextKeys ==
  \/ /\ Deliverable("MarkerArrayClient")
     /\ \E arrayMessage \in KeyArrayMessages : MarkerArrayClient_processMessage(arrayMessage)
  \/ /\ Deliverable("MarkerClient")
     /\ \E message \in KeyMessages : MarkerClient_processMessage(message)
  \/ subscribe
  \/ unsubscribe
  \/ Return

SpecKeys == InitKeys /\ [][NextKeys]_vars

(***************************************************************************)
(* Vocabulary of the properties.                                           *)
(***************************************************************************)
Range(f) == { f[x] : x \in DOMAIN f }

Count(seq, x) == Cardinality({ i \in 1..Len(seq) : seq[i] = x })

\* The handler `op` of a client of class `class` has just returned.
Handled(class, op) == kind = class /\ last.op = op

\* A step in which the handler `op` of class `class` runs: the unprimed
\* variables are the state it found, the primed ones the state it left.
Handles(class, op) == kind = class /\ last.op = "idle" /\ last'.op = op

\* The key is registered and exactly one node created for it is attached.
Attached(k) ==
  /\ k \in DOMAIN markers
  /\ { n \in rootObject : nodes[n].key = k } = { markers[k] }

\* The calls removeMarker is to make on a node, in order.
Teardown(node) ==
  <<"unsubscribeTf", "rootObject.remove", "child.dispose", "disposeObject">>
  \o (IF "geometry" \in DOMAIN node.children[1]
      THEN <<"geometry.dispose", "material.dispose">> ELSE <<>>)
  \o (IF node.children[1].resource THEN <<"resource.dispose">> ELSE <<>>)
  \o <<"delete">>

\* The marker is an upsert the client does not suppress.
ShownUpsert(m) == m.action = 0 /\ m.type \notin hiddenTypes

\* In a MarkerArray, the marker acts on the entry of key k: a delete-all, a
\* delete of k, or an upsert of k that is not suppressed.
Touches(m, k) ==
  \/ m.action = 3
  \/ m.action = 2 /\ Key(m) = k
  \/ ShownUpsert(m) /\ Key(m) = k

\* Index of the last marker after position i that touches key k (0: none).
LastTouch(ms, i, k) ==
  LET js == { j \in (i + 1)..Len(ms) : Touches(ms[j], k) }
  IN  IF js = {} THEN 0 ELSE CHOOSE j \in js : \A j2 \in js : j2 <= j

(***************************************************************************)
(* C1.  After every upsert (action 0, type not hidden) the key is in the   *)
(* markers map and exactly one SceneNode created for that key is attached  *)
(* to rootObject, in both registries.  For an array message this is stated *)
(* of every key whose last marker in the array is such an upsert.          *)
(***************************************************************************)
C1_UpsertPresent ==
  /\ Handled("MarkerClient", "processMessage") /\ last.msg[1].action = 0
       => Attached(Key(last.msg[1]))
  /\ Handled("MarkerArrayClient", "processMessage")
       => \A k \in Keys :
            LET j == LastTouch(last.msg, 0, k)
            IN  (j > 0 /\ ShownUpsert(last.msg[j]) /\ Key(last.msg[j]) = k) => Attached(k)

\* An upsert replaced the node of its key, and the key is attached again.
C1_Witness ==
  /\ last.op = "processMessage"
  /\ \E n \in DOMAIN nodes : nodes[n].via = "replace" /\ Attached(nodes[n].key)

(***************************************************************************)
(* C2.  Upsert on a key that is present: if update(message) returns true   *)
(* the same node stays registered and attached, untouched, and no node is  *)
(* constructed; if it returns false the old node is unsubscribed once,     *)
(* removed from rootObject, each child disposed once, and a new node is    *)
(* registered under the key and attached.  For an array message this is    *)
(* stated of every marker of the array, between the registry as the        *)
(* markers before it left it and the registry as it leaves it; the         *)
(* registry the last marker leaves is the one processMessage leaves.       *)
(***************************************************************************)
\* The registry a handler leaves behind.
WorldAfter == [nodes |-> nodes', markers |-> markers', rootObject |-> rootObject']

\* before, after: the registry found and left by the upsert m of key k.
UpsertOnPresent(before, after, m, k) ==
  LET old == before.markers[k]
      new == after.markers[k]
  IN  IF Marker_update(before.nodes[old].children[1], m)
      THEN /\ k \in DOMAIN after.markers /\ new = old
           /\ after.nodes[old] = before.nodes[old]
           /\ old \in after.rootObject
           /\ DOMAIN after.nodes = DOMAIN before.nodes
           /\ after.rootObject = before.rootObject
      ELSE /\ old \notin after.rootObject
           /\ ~after.nodes[old].tf
           /\ Count(after.nodes[old].log, "unsubscribeTf") = 1
           /\ Count(after.nodes[old].log, "rootObject.remove") = 1
           /\ Count(after.nodes[old].log, "child.dispose")
                = Len(before.nodes[old].children)
           /\ k \in DOMAIN after.markers /\ new \notin DOMAIN before.nodes
           /\ new \in after.rootObject
           /\ after.nodes[new].tf /\ after.nodes[new].log = <<>>
           /\ after.nodes[new].children[1].type = m.type
           /\ { n \in after.rootObject : after.nodes[n].key = k } = { new }
           /\ DOMAIN after.nodes = DOMAIN before.nodes \cup {new}

\* The registries the markers of the array ms find and leave: the i-th is
\* the one marker i finds, left by the first i - 1 markers, and the last is
\* the one the last marker leaves.
Applied(ms) ==
  <<World>> \o [i \in 1..Len(ms) |-> MarkerArrayClient_forEach(World, SubSeq(ms, 1, i), 1)]

C2_Step ==
  /\ Handles("MarkerClient", "processMessage")
       => LET m == last'.msg[1]
          IN  (m.action = 0 /\ Key(m) \in DOMAIN markers)
                => UpsertOnPresent(World, WorldAfter, m, Key(m))
  /\ Handles("MarkerArrayClient", "processMessage")
       => \A ms \in {last'.msg} : \A applied \in {Applied(ms)} :
            /\ \A i \in 1..Len(ms) :
                 (ShownUpsert(ms[i]) /\ Key(ms[i]) \in DOMAIN applied[i].markers)
                   => UpsertOnPresent(applied[i], applied[i + 1], ms[i], Key(ms[i]))
            /\ markers' = applied[Len(ms) + 1].markers
            /\ nodes' = applied[Len(ms) + 1].nodes
            /\ rootObject' = applied[Len(ms) + 1].rootObject

C2_UpsertOnPresent == [][C2_Step]_vars

\* Two upserts of one key in one array, the second on the entry the first
\* left: the second changed the type, so the node the first had registered
\* (or updated in place) was torn down and a node of the new type is
\* registered and attached.
C2_Witness ==
  /\ Handled("MarkerArrayClient", "processMessage")
  /\ Len(last.msg) = 2
  /\ ShownUpsert(last.msg[1]) /\ ShownUpsert(last.msg[2])
  /\ Key(last.msg[1]) = Key(last.msg[2])
  /\ last.msg[1].type # last.msg[2].type
  /\ LET k  == Key(last.msg[1])
         of == { n \in DOMAIN nodes : nodes[n].key = k }
     IN  /\ Attached(k)
         /\ nodes[markers[k]].children[1].type = last.msg[2].type
         /\ nodes[markers[k]].log = <<>>
         /\ \E n \in of : /\ nodes[n].via = "replace"
                           /\ nodes[n].children[1].type = last.msg[1].type
                           /\ nodes[n].log = Teardown(nodes[n])

(***************************************************************************)
(* C3.  MarkerArrayClient, delete-all (action 3) inside an array: every    *)
(* entity present is torn down through removeMarker, no node of the client *)
(* stays under rootObject, and the markers after the delete-all are still  *)
(* applied in array order: a key is registered afterwards exactly when the *)
(* last marker touching it after the delete-all is a shown upsert, and     *)
(* then with a marker of that upsert's type.                               *)
(***************************************************************************)
C3_Step ==
  Handles("MarkerArrayClient", "processMessage")
    => LET ms   == last'.msg
           alls == { i \in 1..Len(ms) : ms[i].action = 3 }
       IN  alls # {} =>
             LET i == CHOOSE a \in alls : \A b \in alls : b <= a
             IN  /\ \A n \in Range(markers) :
                      /\ n \notin rootObject'
                      /\ n \notin Range(markers')
                      /\ nodes'[n].log = Teardown(nodes[n])
                 /\ \A k \in Keys :
                      LET j == LastTouch(ms, i, k)
                      IN  IF j > 0 /\ ShownUpsert(ms[j]) /\ Key(ms[j]) = k
                          THEN /\ k \in DOMAIN markers'
                               /\ nodes'[markers'[k]].children[1].type = ms[j].type
                          ELSE k \notin DOMAIN markers'
                 /\ rootObject' = Range(markers')
                 /\ i = Len(ms) => (markers' = <<>> /\ rootObject' = {})

C3_DeleteAll == [][C3_Step]_vars

\* A delete-all found two entities and tore both down; the two upserts of
\* one key that followed it in the same array were applied in their order,
\* the second replacing the marker the first had registered.
C3_Witness ==
  /\ Handled("MarkerArrayClient", "processMessage")
  /\ Len(last.msg) = 3
  /\ last.msg[1].action = 3
  /\ ShownUpsert(last.msg[2]) /\ ShownUpsert(last.msg[3])
  /\ Key(last.msg[2]) = Key(last.msg[3])
  /\ last.msg[2].type # last.msg[3].type
  /\ Cardinality({ n \in DOMAIN nodes : nodes[n].via = "deleteAll" }) = 2
  /\ \E n \in DOMAIN nodes : /\ nodes[n].via = "replace"
                              /\ nodes[n].children[1].type = last.msg[2].type
  /\ DOMAIN markers = { Key(last.msg[3]) }
  /\ nodes[markers[Key(last.msg[3])]].children[1].type = last.msg[3].type

(***************************************************************************)
(* C4.  A delete-all (action 3) delivered to a MarkerClient destroys every *)
(* managed entity and leaves the markers map empty, whatever ns and id the *)
(* message carries.                                                        *)
(***************************************************************************)
C4_ClientDeleteAll ==
  (Handled("MarkerClient", "processMessage") /\ last.msg[1].action = 3)
    => (markers = <<>> /\ rootObject = {})

(***************************************************************************)
(* C5.  A delete (action 2) for a key that is not registered changes       *)
(* nothing, in both registries and for any lifetime: the markers map, the  *)
(* nodes under rootObject, the recorded update times and the pending       *)
(* expiry timers are as before.                                            *)
(***************************************************************************)
C5_Step ==
  /\ Handles("MarkerClient", "processMessage")
       => LET m == last'.msg[1]
          IN  (m.action = 2 /\ Key(m) \notin DOMAIN markers)
                => UNCHANGED <<markers, rootObject, nodes, updatedTime, timers>>
  /\ ( /\ Handles("MarkerArrayClient", "processMessage")
       /\ Len(last'.msg) > 0
       /\ \A i \in 1..Len(last'.msg) :
            last'.msg[i].action = 2 /\ Key(last'.msg[i]) \notin DOMAIN markers )
       => UNCHANGED <<markers, rootObject, nodes, updatedTime, timers>>

C5_DeleteAbsent == [][C5_Step]_vars

(***************************************************************************)
(* C6.  In a MarkerClient a message with action code 1, or with any code   *)
(* other than 0, 2 and 3, changes no state: a live entity under its key is *)
(* still registered, attached and not disposed when processMessage         *)
(* returns.                                                                *)
(***************************************************************************)
C6_Step ==
  Handles("MarkerClient", "processMessage")
    => LET m == last'.msg[1]
           k == Key(m)
       IN  (m.action \notin {0, 2, 3} /\ k \in DOMAIN markers)
             => /\ k \in DOMAIN markers' /\ markers'[k] = markers[k]
                /\ markers[k] \in rootObject'
                /\ nodes'[markers[k]] = nodes[markers[k]]

C6_ClientUnknownAction == [][C6_Step]_vars

(***************************************************************************)
(* C7.  In a MarkerArrayClient a marker with action code 1, or with a code *)
(* outside {0,1,2,3}, changes neither the markers map nor rootObject, and  *)
(* the other markers of the array are applied as if it were not there: the *)
(* message leaves the registry as the same message without those markers   *)
(* would have.                                                             *)
(***************************************************************************)
Ignored(m) == m.action \notin {0, 2, 3}

C7_Step ==
  Handles("MarkerArrayClient", "processMessage")
    => LET ms   == last'.msg
           rest == SelectSeq(ms, LAMBDA m : ~Ignored(m))
           w    == MarkerArrayClient_handle(World, [markers |-> rest])
       IN  /\ markers' = w.markers
           /\ rootObject' = w.rootObject
           /\ nodes' = w.nodes
           /\ rest = <<>> => UNCHANGED <<markers, rootObject, nodes>>
           /\ Count(last'.trace, "warn") = Len(ms) - Len(rest)

C7_ArrayUnknownAction == [][C7_Step]_vars

\* An array of a deprecated marker and an upsert was processed while another
\* entity was live: the upsert is registered, the other entity untouched.
C7_Witness ==
  /\ Handled("MarkerArrayClient", "processMessage")
  /\ Len(last.msg) = 2
  /\ last.msg[1].action = 1 /\ ShownUpsert(last.msg[2])
  /\ Cardinality(DOMAIN markers) = 2
  /\ \A k \in DOMAIN markers : Attached(k)
  /\ \A n \in DOMAIN nodes : nodes[n].via = "none"

(***************************************************************************)
(* C8.  Every removal through removeMarker (explicit delete, replace on    *)
(* update, delete-all, expiry by checkTime, and the MarkerClient's removal *)
(* on other action codes) unsubscribes the node from TF, then removes it   *)
(* from rootObject, then applies dispose(), disposeObject (geometry and    *)
(* materials) and, if present, resource.dispose() to every child, and only *)
(* then deletes the key; and no node leaves the markers map without all of *)
(* these steps having run on it, in that order.                            *)
(***************************************************************************)
RemoveMarkerPaths == {"delete", "replace", "deleteAll", "expiry", "unknown"}

C8_Teardown ==
  \A n \in DOMAIN nodes :
    /\ nodes[n].via \in RemoveMarkerPaths
         => /\ nodes[n].log = Teardown(nodes[n])
            /\ ~nodes[n].tf
            /\ n \notin rootObject
            /\ n \notin Range(markers)
    /\ n \notin Range(markers) => nodes[n].log = Teardown(nodes[n])

(***************************************************************************)
(* C9.  removeArray() removes every managed entity with the teardown of    *)
(* removeMarker (TF unsubscribe, removal from rootObject, dispose and      *)
(* disposeObject of every child, dispose of an attached mesh resource) and *)
(* leaves the markers map empty; a second call changes no state.           *)
(***************************************************************************)
C9_Step ==
  Handles("MarkerArrayClient", "removeArray")
    => /\ markers' = <<>>
       /\ rootObject' = rootObject \ Range(markers)
       /\ \A n \in Range(markers) :
            LET log == nodes'[n].log
            IN  /\ ~nodes'[n].tf
                /\ Count(log, "unsubscribeTf") = 1
                /\ Count(log, "rootObject.remove") = 1
                /\ Count(log, "child.dispose") = 1
                /\ Count(log, "disposeObject") = 1
                /\ nodes[n].children[1].resource => Count(log, "resource.dispose") = 1
       /\ markers = <<>> => UNCHANGED <<nodes, markers, rootObject, updatedTime, timers>>

C9_RemoveArray == [][C9_Step]_vars

(***************************************************************************)
(* C10.  MarkerArrayClient.processMessage emits exactly one 'change' per   *)
(* array message, however many markers the array carries, and emits it     *)
(* after every marker of the array has been applied.                       *)
(***************************************************************************)
C10_OneChange ==
  Handled("MarkerArrayClient", "processMessage")
    => LET t == last.trace
       IN  /\ Count(t, "change") = 1
           /\ t[Len(t)] = "change"
           /\ Count(t, "marker") = Len(last.msg)

\* An array of two markers that both changed the registry: one notification.
C10_Witness ==
  /\ Handled("MarkerArrayClient", "processMessage")
  /\ Len(last.msg) = 2
  /\ Cardinality(DOMAIN markers) = 2
  /\ last.trace = <<"marker", "marker", "change">>

(***************************************************************************)
(* C11.  Expiry scenario of a MarkerClient with lifetime 100 ms and the    *)
(* 100 ms poll: one upsert and no further message.  As claimed, the entity *)
(* is absent from the registry and the scene 150 ms after the upsert.      *)
(* That is stated of the moments at which every poll has run on time.      *)
(***************************************************************************)
\* Time since the last message for key k.
Elapsed(k) == now - updatedTime[k]

\* No pending poll is overdue: every timer callback due so far has run.
PollsOnTime == \A t \in BagToSet(timers) : t.due > now

C11_GoneAt150 ==
  \A k \in DOMAIN updatedTime :
    (kind = "MarkerClient" /\ lifetime = PollInterval /\ last.op = "idle"
       /\ PollsOnTime /\ Elapsed(k) = PollInterval + TickStep)
      => (k \notin DOMAIN markers /\ rootObject = {})

(***************************************************************************)
(* C11, amended.  In that scenario the polls are due 100 ms and 200 ms     *)
(* after the upsert.  A poll that runs with elapsed time at most 100 ms    *)
(* keeps the entity and emits nothing; the first poll that runs more than  *)
(* 100 ms after the upsert removes the entity from the registry and the    *)
(* scene and emits exactly one 'change', and no poll is pending afterwards.*)
(* The entity is never absent before more than 100 ms have elapsed.        *)
(***************************************************************************)
C11_ExpiryScenario ==
  \A k \in DOMAIN updatedTime :
    (kind = "MarkerClient" /\ lifetime = PollInterval) =>
      /\ k \in DOMAIN markers =>
           /\ BagCardinality(timers) = 1
           /\ \A t \in BagToSet(timers) :
                /\ t.name = k
                /\ t.due - updatedTime[k] \in {PollInterval, 2 * PollInterval}
      /\ k \notin DOMAIN markers =>
           /\ Elapsed(k) > lifetime
           /\ rootObject = {}
           /\ timers = EmptyBag
      /\ last.op = "checkTime" =>
           IF Elapsed(k) > lifetime
           THEN k \notin DOMAIN markers /\ last.trace = <<"change">>
           ELSE k \in DOMAIN markers /\ last.trace = <<>>

\* The poll due 100 ms after the upsert ran on time and kept the entity,
\* which is still live 150 ms after the upsert.
C11_Witness ==
  /\ kind = "MarkerClient"
  /\ lifetime = PollInterval
  /\ last.op = "idle"
  /\ PollsOnTime
  /\ \E k \in DOMAIN markers : Elapsed(k) = PollInterval + TickStep

(***************************************************************************)
(* C12.  In a MarkerClient with a nonzero lifetime, at every moment every  *)
(* live entity has at least one pending checkTime poll for its key, and    *)
(* every entity that receives no further message is eventually removed     *)
(* from the markers map and from rootObject, provided the clock advances   *)
(* and scheduled timers fire.                                              *)
(***************************************************************************)
PollPending ==
  \A k \in DOMAIN markers : \E t \in BagToSet(timers) : t.name = k

C12_EventuallyExpires ==
  /\ []((kind = "MarkerClient" /\ lifetime # 0) => PollPending)
  /\ \A k \in Keys :
       (k \in DOMAIN markers /\ now > TickStep)
         ~> (k \notin DOMAIN markers /\ \A n \in rootObject : nodes[n].key # k)

\* A poll has just removed an expired entity.
C12_Witness ==
  /\ Handled("MarkerClient", "checkTime")
  /\ last.trace = <<"change">>
  /\ \E n \in DOMAIN nodes :
       /\ nodes[n].via = "expiry"
       /\ nodes[n].key = last.name
       /\ n \notin rootObject

(***************************************************************************)
(* C13.  In a MarkerClient with lifetime 0 no expiry timer is ever armed,  *)
(* and an entity leaves the registry only in the handling of a message     *)
(* addressed to its key, never by the passage of time.                     *)
(***************************************************************************)
C13_Step ==
  (kind = "MarkerClient" /\ lifetime = 0) =>
    /\ timers' = EmptyBag
    /\ \A k \in DOMAIN markers :
         (k \notin DOMAIN markers' \/ markers'[k] # markers[k]
            \/ markers[k] \notin rootObject')
           => /\ Handles("MarkerClient", "processMessage")
              /\ Key(last'.msg[1]) = k

C13_NoExpiry == [][C13_Step]_vars

\* With lifetime 0 an entity is still live when the clock has reached its
\* bound, long after its only message.
C13_Witness ==
  /\ kind = "MarkerClient"
  /\ lifetime = 0
  /\ last.op = "idle"
  /\ now = MaxTicks * TickStep
  /\ \E k \in DOMAIN markers : updatedTime[k] = 0 /\ markers[k] \in rootObject

(***************************************************************************)
(* C19.  In a MarkerArrayClient an upsert whose type is in hiddenTypes     *)
(* creates no entry and does not change, update or remove an entry under   *)
(* its key: the markers map and rootObject are what they would be had the  *)
(* marker not been in the array, and unchanged when every marker of the    *)
(* array is such an upsert.                                                *)
(***************************************************************************)
HiddenUpsert(m) == m.action = 0 /\ m.type \in hiddenTypes

C19_Step ==
  Handles("MarkerArrayClient", "processMessage")
    => LET ms    == last'.msg
           shown == SelectSeq(ms, LAMBDA m : ~HiddenUpsert(m))
           w     == MarkerArrayClient_forEach(World, shown, 1)
       IN  /\ markers' = w.markers
           /\ rootObject' = w.rootObject
           /\ nodes' = w.nodes
           /\ shown = <<>> => UNCHANGED <<markers, rootObject, nodes>>

C19_HiddenUpsert == [][C19_Step]_vars

\* A hidden upsert was addressed to the key of a live entity of another
\* type: the entity is still registered, attached and untouched.
C19_Witness ==
  /\ Handled("MarkerArrayClient", "processMessage")
  /\ Len(last.msg) = 1
  /\ HiddenUpsert(last.msg[1])
  /\ Key(last.msg[1]) \in DOMAIN markers
  /\ LET n == markers[Key(last.msg[1])]
     IN  /\ n \in rootObject
         /\ nodes[n].children[1].type # last.msg[1].type
         /\ nodes[n].log = <<>>

(***************************************************************************)
(* C20.  Between handler calls, in both registries: the SceneNodes         *)
(* attached to rootObject are exactly the values of the markers map, one   *)
(* node per key, each created for that key and still TF-subscribed; every  *)
(* node the client created that is no longer in the map is unsubscribed    *)
(* and detached from rootObject.                                           *)
(***************************************************************************)
C20_SceneMatchesRegistry ==
  /\ rootObject = Range(markers)
  /\ \A k1, k2 \in DOMAIN markers : markers[k1] = markers[k2] => k1 = k2
  /\ \A k \in DOMAIN markers :
       /\ markers[k] \in DOMAIN nodes
       /\ nodes[markers[k]].key = k
       /\ nodes[markers[k]].tf
  /\ \A n \in DOMAIN nodes \ Range(markers) :
       ~nodes[n].tf /\ n \notin rootObject

\* removeArray has just dropped two entities.
C20_Witness ==
  /\ Handled("MarkerArrayClient", "removeArray")
  /\ markers = <<>>
  /\ Cardinality({ n \in DOMAIN nodes : nodes[n].via = "removeArray" }) = 2

(***************************************************************************)
(* Vocabulary of the Viewer's properties.                                  *)
(***************************************************************************)
\* The vectors whose coordinates are all finite.
IsFinite(p) == \A i \in 1..3 : p[i].c = "finite"

\* |a - b| / 2^e for finite a and b that are multiples of 2^e.
Gap(a, b, e) ==
  LET x == Shl[a.m, a.e - e]
      y == Shl[b.m, b.e - e]
  IN  IF a.s # b.s THEN BigAdd[x, y]
      ELSE IF BigLess[x, y] THEN BigSub[y, x] ELSE BigSub[x, y]

\* The square of the distance between points p and q, in units of 2^(2e).
Dist2(p, q, e) ==
  BigAdd[BigAdd[BigMul[Gap(p[1], q[1], e), Gap(p[1], q[1], e)],
                BigMul[Gap(p[2], q[2], e), Gap(p[2], q[2], e)]],
         BigMul[Gap(p[3], q[3], e), Gap(p[3], q[3], e)]]

\* An exponent of which every nonzero coordinate of the points is a multiple.
Unit(points) ==
  LET es == { pt[i].e : pt \in points, i \in 1..3 }
  IN  CHOOSE e \in es : \A f \in es : e <= f

\* q is strictly nearer to t than p is.
Nearer(q, p, t) ==
  BigLess[Dist2(q, t, Unit({p, q, t})), Dist2(p, t, Unit({p, q, t}))]

\* x lies between a and b, ends included.
Between(x, a, b) ==
  \/ ~Greater[a, x] /\ ~Greater[x, b]
  \/ ~Greater[b, x] /\ ~Greater[x, a]

\* A step in which draw() is called: by an animation frame or by start().
Draws == kind = "Viewer" /\ last.op = "idle" /\ last'.op \in {"frame", "start"}

CameraUnmoved ==
  /\ viewer'.position = viewer.position
  /\ viewer'.orientation = viewer.orientation

(***************************************************************************)
(* C14.  After stop() and until the next start() no further render tick    *)
(* fires: in every step of the loop taken while the viewer is stopped,     *)
(* renderer.render is not called, the camera is not moved, and no timeout  *)
(* or animation-frame request is added to those outstanding.               *)
(***************************************************************************)
C14_Step ==
  (kind = "Viewer" /\ last.op = "idle" /\ last'.op \in {"timeout", "frame"}
     /\ viewer.stopped /\ viewer'.stopped)
    => /\ Count(last'.trace, "renderer.render") = 0
       /\ CameraUnmoved
       /\ viewer'.frames \subseteq viewer.frames
       /\ viewer'.timeouts <= viewer.timeouts

C14_NoTickAfterStop == [][C14_Step]_vars

(***************************************************************************)
(* C15.  On every tick in following mode at which the tracked entity or    *)
(* its view anchor is not in the scene, draw() leaves the position and     *)
(* the orientation of the camera unchanged.                                *)
(***************************************************************************)
C15_Step ==
  (Draws /\ viewer.followCamera
     /\ (viewer.sceneObject = 0 \/ viewer.sceneView = 0))
    => CameraUnmoved

C15_HoldsWhenAbsent == [][C15_Step]_vars

(***************************************************************************)
(* C16.  As claimed: on every following -> manual transition made by       *)
(* disableFollowCamera(), cameraControls.lastPosition becomes the camera   *)
(* position and cameraControls.center the tracked entity's position, and   *)
(* the viewer is in manual mode afterwards.                                *)
(***************************************************************************)
Seeded(v) ==
  /\ v.lastPosition = "camera.position"
  /\ v.center # 0
  /\ v.center = v.followObject

C16_AlwaysSeeded ==
  [][(Handles("Viewer", "disableFollowCamera") /\ viewer.followCamera)
       => (Seeded(viewer') /\ ~viewer'.followCamera)]_vars

(***************************************************************************)
(* C16, amended.  disableFollowCamera() always leaves the viewer in manual *)
(* mode and never moves the camera.  On a following -> manual transition   *)
(* made after the viewer has found both the tracked entity and its view    *)
(* anchor, lastPosition becomes the camera position and center the found   *)
(* entity's position; on any other call the controller's reference state   *)
(* is left as it was.                                                      *)
(***************************************************************************)
C16_Step ==
  Handles("Viewer", "disableFollowCamera") =>
    /\ ~viewer'.followCamera
    /\ CameraUnmoved
    /\ IF viewer.followCamera /\ viewer.followObject # 0
            /\ viewer.followObjectView # 0
       THEN Seeded(viewer')
       ELSE /\ viewer'.lastPosition = viewer.lastPosition
            /\ viewer'.center = viewer.center

C16_SeededWhenFound == [][C16_Step]_vars

\* disableFollowCamera() has just seeded the controller from the followed view.
C16_Witness ==
  /\ Handled("Viewer", "disableFollowCamera")
  /\ last.trace = <<"cameraControls.lastPosition", "cameraControls.center">>
  /\ ~viewer.followCamera
  /\ Seeded(viewer)

(***************************************************************************)
(* C17.  In following mode with the tracked entity and a stationary view   *)
(* anchor present in the scene, each tick moves the camera toward the      *)
(* anchor's world position: while the distance from the camera to the      *)
(* anchor is nonzero, the tick makes it strictly smaller, and no           *)
(* coordinate of the camera passes the anchor's.                           *)
(***************************************************************************)
\* A tick of a running viewer in following mode with the entity and its
\* anchor in the scene.
FollowsPresent ==
  /\ Draws
  /\ ~viewer'.stopped
  /\ viewer.followCamera
  /\ viewer.sceneObject # 0
  /\ viewer.sceneView # 0

C17_Step ==
  (FollowsPresent /\ IsFinite(viewer.position))
    => LET t == ViewPosition(viewer.sceneView)
           p == viewer.position
           q == viewer'.position
       IN  /\ IsFinite(q)
           /\ \A i \in 1..3 : Between(q[i], p[i], t[i])
           /\ p # t => Nearer(q, p, t)

C17_StrictlyCloser == [][C17_Step]_vars

(***************************************************************************)
(* C18.  When ROS3D.Urdf is constructed: a mesh visual whose file          *)
(* extension has no registered loader produces only a warning and no       *)
(* child, and construction goes on with the visuals after it; a mesh       *)
(* visual with a supported extension produces exactly one SceneNode child, *)
(* which carries exactly one view anchor, named '<node name>_view'; a      *)
(* visual with another geometry produces exactly one SceneNode child; a    *)
(* visual without geometry produces nothing.                               *)
(***************************************************************************)
\* The extension of a file name: what follows its last dot, in lower case.
Extension(filename) ==
  LET dots == { i \in 1..Len(filename) : <<filename[i]>> = CodeUnits(<<".">>) }
      last_dot == CHOOSE i \in dots : \A j \in dots : j <= i
  IN  IF dots = {} THEN <<>>
      ELSE toLowerCase(SubSeq(filename, last_dot + 1, Len(filename)))

\* The children and the warnings made from visual i of link l.
MadeFrom(l, i) == { c \in 1..Len(urdf.children) : urdf.children[c].from = <<l, i>> }
WarnedFor(l, i) == { c \in 1..Len(urdf.warnings) : urdf.warnings[c].from = <<l, i>> }

C18_UrdfChildren ==
  (kind = "Urdf" /\ urdf.constructed) =>
    \A l \in 1..Len(urdf.urdfModel) :
      \A i \in 1..Len(urdf.urdfModel[l].visuals) :
        LET link   == urdf.urdfModel[l]
            visual == link.visuals[i]
        IN  IF visual.type = "none"
            THEN MadeFrom(l, i) = {} /\ WarnedFor(l, i) = {}
            ELSE IF visual.type = "mesh" /\ Extension(visual.filename) \notin MeshLoader_loaders
            THEN MadeFrom(l, i) = {} /\ Cardinality(WarnedFor(l, i)) = 1
            ELSE /\ Cardinality(MadeFrom(l, i)) = 1
                 /\ WarnedFor(l, i) = {}
                 /\ visual.type = "mesh" =>
                      \A c \in MadeFrom(l, i) :
                        LET node  == urdf.children[c]
                            views == { k \in 1..Len(node.children) :
                                         node.children[k].kind = "view" }
                        IN  /\ node.name = IF visual.name # <<>> THEN visual.name
                                           ELSE link.name
                            /\ Cardinality(views) = 1
                            /\ \A k \in views :
                                 node.children[k].name
                                   = node.name \o <<"_", "v", "i", "e", "w">>

(***************************************************************************)
(* C21.  In a MarkerClient with lifetime L > 0, checkTime never removes    *)
(* an entity while the time elapsed since the last message for its key is  *)
(* at most L: the poll leaves the entity registered, attached and          *)
(* untouched, emits nothing and polls again.                               *)
(***************************************************************************)
C21_Step ==
  (Handles("MarkerClient", "checkTime") /\ lifetime > 0)
    => \A k \in DOMAIN markers :
         (last'.name = k /\ now - updatedTime[k] <= lifetime)
           => /\ k \in DOMAIN markers'
              /\ markers'[k] = markers[k]
              /\ markers[k] \in rootObject'
              /\ nodes'[markers[k]] = nodes[markers[k]]
              /\ last'.trace = <<>>
              /\ \E t \in BagToSet(timers') : t.name = k /\ t.due = now + PollInterval

C21_FreshNeverExpires == [][C21_Step]_vars

\* A poll has run exactly L after the last of several messages for the key
\* of a live entity, and has kept it.
C21_Witness ==
  /\ Handled("MarkerClient", "checkTime")
  /\ lifetime > 0
  /\ last.name \in DOMAIN markers
  /\ updatedTime[last.name] > 0
  /\ now - updatedTime[last.name] = lifetime
  /\ last.trace = <<>>

(***************************************************************************)
(* C22.  In a MarkerClient every 'change' notification emitted by          *)
(* checkTime coincides with the removal of an entity that was live at      *)
(* that moment: checkTime never notifies when it removed nothing.          *)
(***************************************************************************)
C22_Step ==
  (Handles("MarkerClient", "checkTime") /\ Count(last'.trace, "change") > 0)
    => /\ last'.name \in DOMAIN markers
       /\ last'.name \notin DOMAIN markers'
       /\ markers[last'.name] \notin rootObject'

C22_ExpiryNotifiesRemoval == [][C22_Step]_vars

(***************************************************************************)
(* C25.  Entities with different (namespace, id) pairs never share a       *)
(* registry entry: handling upserts and deletes leaves every live entity   *)
(* created for a pair that none of the messages names registered,          *)
(* attached and untouched.                                                 *)
(***************************************************************************)
C25_Step ==
  (last.op = "idle" /\ last'.op = "processMessage")
    => \A n \in Range(markers) :
         (\A i \in 1..Len(last'.msg) :
            /\ last'.msg[i].action \in {0, 2}
            /\ <<last'.msg[i].ns, last'.msg[i].id>> # nodes[n].pair)
           => /\ n \in DOMAIN nodes'
              /\ nodes'[n] = nodes[n]
              /\ n \in rootObject'
              /\ nodes[n].key \in DOMAIN markers'
              /\ markers'[nodes[n].key] = n

C25_PairsApart == [][C25_Step]_vars

(***************************************************************************)
(* C23.  For any sequence of start() and stop() calls interleaved with     *)
(* timer and animation-frame callbacks, at most one tick of the render     *)
(* loop (pending setTimeout or pending animation-frame request) is         *)
(* outstanding at any time.                                                *)
(***************************************************************************)
C23_SingleLoop == kind = "Viewer" => Pending(viewer) <= 1

(***************************************************************************)
(* C24.  The camera mode is a Boolean and changes only in                  *)
(* enableFollowCamera() and disableFollowCamera(); calling either a second *)
(* time changes nothing and makes no call.  Every draw() of a running      *)
(* viewer in manual mode calls cameraControls.update() once and does not   *)
(* interpolate or move the camera; every draw() in following mode never    *)
(* calls cameraControls.update().                                          *)
(***************************************************************************)
C24_Step ==
  kind = "Viewer" =>
    /\ viewer.followCamera \in BOOLEAN
    /\ viewer'.followCamera \in BOOLEAN
    /\ (viewer'.followCamera # viewer.followCamera)
         => last'.op \in {"enableFollowCamera", "disableFollowCamera"}
    /\ Handles("Viewer", "enableFollowCamera")
         => /\ viewer'.followCamera
            /\ Viewer_enableFollowCamera([v |-> viewer', trace |-> <<>>])
                 = [v |-> viewer', trace |-> <<>>]
    /\ Handles("Viewer", "disableFollowCamera")
         => /\ ~viewer'.followCamera
            /\ Viewer_disableFollowCamera([v |-> viewer', trace |-> <<>>])
                 = [v |-> viewer', trace |-> <<>>]
    /\ (Draws /\ ~viewer'.stopped /\ ~viewer.followCamera)
         => /\ Count(last'.trace, "cameraControls.update") = 1
            /\ Count(last'.trace, "lerp") = 0
            /\ CameraUnmoved
    /\ (Draws /\ viewer.followCamera)
         => Count(last'.trace, "cameraControls.update") = 0

C24_CameraModes == [][C24_Step]_vars

\* An animation frame has just drawn in manual mode, after the viewer had
\* found the followed object and its view while following.
C24_Witness ==
  /\ Handled("Viewer", "frame")
  /\ ~viewer.followCamera
  /\ ~viewer.stopped
  /\ viewer.followObject # 0
  /\ viewer.followObjectView # 0
  /\ last.trace = <<"draw", "cameraControls.update", "renderer.render">>

(***************************************************************************)
(* C27.  The followCamera option determines the initial camera mode: when  *)
(* the constructor returns, followCamera = false has left the viewer in    *)
(* manual mode with cameraControls.update() called by the first draw(),    *)
(* and followCamera = true or omitted has left it in following mode with   *)
(* no such call.                                                           *)
(***************************************************************************)
C27_OptionSetsMode ==
  (kind = "Viewer" /\ last.op = "new")
    => IF last.msg[1].followCamera = "false"
       THEN /\ ~viewer.followCamera
            /\ Count(last.trace, "cameraControls.update") = 1
       ELSE /\ viewer.followCamera
            /\ Count(last.trace, "cameraControls.update") = 0

(***************************************************************************)
(* C26.  setViewByName(name) with a name other than 'TOP' or 'ALL' is      *)
(* ignored: the position and the orientation of the camera are unchanged   *)
(* after the call, whether or not the zoom object is in the scene.         *)
(***************************************************************************)
C26_Step ==
  (Handles("Viewer", "setViewByName")
     /\ last'.msg[1].name \notin {"TOP", "ALL"})
    => CameraUnmoved

C26_OtherNameIgnored == [][C26_Step]_vars

====
